---- MODULE Spec2Model ----
(***************************************************************************)
(* Model of the currency_exchange service: the rate acquisition pipeline   *)
(* (RateService), the conversion engine (ConversionService) and the        *)
(* transaction query engine (TransactionService).                          *)
(*                                                                         *)
(* Decimals are Python decimal.Decimal values, kept as Python keeps them:  *)
(* a sign, a coefficient written as a sequence of decimal digits, and an   *)
(* exponent.  Strings (JSON number literals, the string-encoded rates of   *)
(* the backup store) are sequences of one-character strings.               *)
(***************************************************************************)
EXTENDS Integers, Sequences, FiniteSets, TLC

(***************************************************************************)
(* Settings (app/core/config.py) and the decimal context.                  *)
(***************************************************************************)
EXCHANGE_RATE_BASE_CURRENCY == "EUR"

EXCHANGE_RATE_CACHE_TTL == 3600

SUPPORTED_CURRENCIES == {"USD", "EUR", "JPY", "BRL"}

\* getcontext().prec = 10
DecimalPrec == 10

(***************************************************************************)
(* decimal.Decimal                                                         *)
(***************************************************************************)
DigitChars == <<"0", "1", "2", "3", "4", "5", "6", "7", "8", "9">>

CharDigit(ch) ==
    CASE ch = "0" -> 0 [] ch = "1" -> 1 [] ch = "2" -> 2 [] ch = "3" -> 3
      [] ch = "4" -> 4 [] ch = "5" -> 5 [] ch = "6" -> 6 [] ch = "7" -> 7
      [] ch = "8" -> 8 [] ch = "9" -> 9

RECURSIVE IntOfDigits(_)
\* int(self._int): the coefficient as an integer
IntOfDigits(d) ==
    IF d = <<>> THEN 0
    ELSE 10 * IntOfDigits(SubSeq(d, 1, Len(d) - 1)) + d[Len(d)]

RECURSIVE DigitsOfInt(_)
\* str(n) for n >= 0, as digits; the empty sequence for 0
DigitsOfInt(n) ==
    IF n = 0 THEN <<>> ELSE Append(DigitsOfInt(n \div 10), n % 10)

RECURSIVE StripLeadingZeros(_)
StripLeadingZeros(d) ==
    IF d = <<>> THEN <<>>
    ELSE IF d[1] = 0 THEN StripLeadingZeros(Tail(d))
    ELSE d

\* _dec_from_triple(sign, coefficient, exponent)
Dec(s, d, e) ==
    [s |-> s, d |-> IF StripLeadingZeros(d) = <<>> THEN <<0>>
                    ELSE StripLeadingZeros(d), e |-> e]

DecOfInt(n, e) ==
    IF n < 0 THEN Dec(1, DigitsOfInt(0 - n), e) ELSE Dec(0, DigitsOfInt(n), e)

DecIsZero(x) == x.d = <<0>>

DecOne == Dec(0, <<1>>, 0)

RECURSIVE StripTrailingZeros(_)
\* the value with the trailing zeros of the coefficient moved to the exponent
StripTrailingZeros(x) ==
    IF DecIsZero(x) THEN [s |-> 0, d |-> <<0>>, e |-> 0]
    ELSE IF x.d[Len(x.d)] = 0
         THEN StripTrailingZeros([s |-> x.s, d |-> SubSeq(x.d, 1, Len(x.d) - 1),
                                  e |-> x.e + 1])
    ELSE x

\* Decimal.__eq__: numeric equality, whatever the exponents
DecEq(x, y) == StripTrailingZeros(x) = StripTrailingZeros(y)

\* x <= Decimal('0')
DecLeqZero(x) == DecIsZero(x) \/ x.s = 1

RECURSIVE IncDigits(_)
\* coefficient + 1
IncDigits(d) ==
    IF d = <<>> THEN <<1>>
    ELSE IF d[Len(d)] = 9
         THEN Append(IncDigits(SubSeq(d, 1, Len(d) - 1)), 0)
    ELSE [d EXCEPT ![Len(d)] = @ + 1]

RECURSIVE Zeros(_)
Zeros(n) == IF n <= 0 THEN <<>> ELSE <<0>> \o Zeros(n - 1)

AllZero(d) == \A i \in 1..Len(d) : d[i] = 0

\* Decimal._fix under ROUND_HALF_EVEN: at most DecimalPrec digits
DecFix(x) ==
    IF Len(x.d) <= DecimalPrec THEN x
    ELSE LET keep == SubSeq(x.d, 1, DecimalPrec)
             rest == SubSeq(x.d, DecimalPrec + 1, Len(x.d))
             e    == x.e + Len(rest)
             up   == \/ rest[1] > 5
                     \/ rest[1] = 5 /\ ~AllZero(Tail(rest))
                     \/ rest[1] = 5 /\ AllZero(Tail(rest))
                                    /\ keep[DecimalPrec] % 2 = 1
             inc  == IncDigits(keep)
         IN  IF ~up THEN [s |-> x.s, d |-> keep, e |-> e]
             ELSE IF Len(inc) > DecimalPrec
                  THEN [s |-> x.s, d |-> SubSeq(inc, 1, DecimalPrec), e |-> e + 1]
             ELSE [s |-> x.s, d |-> inc, e |-> e]

RECURSIVE DivDigits(_, _, _, _)
\* long division of the remainder r by b: acc holds the significant digits
\* produced so far, k the number of digits produced after the units digit
DivDigits(r, b, acc, k) ==
    IF r = 0 THEN [d |-> acc, k |-> k]
    ELSE IF Len(acc) = DecimalPrec
         THEN LET up  == 2 * r > b \/ (2 * r = b /\ acc[DecimalPrec] % 2 = 1)
                  inc == IncDigits(acc)
              IN  IF ~up THEN [d |-> acc, k |-> k]
                  ELSE IF Len(inc) > DecimalPrec
                       THEN [d |-> SubSeq(inc, 1, DecimalPrec), k |-> k - 1]
                  ELSE [d |-> inc, k |-> k]
    ELSE LET q == (10 * r) \div b
         IN  DivDigits((10 * r) % b, b,
                       IF acc = <<>> /\ q = 0 THEN <<>> ELSE Append(acc, q),
                       k + 1)

\* Decimal.__truediv__ for a non-zero divisor: the quotient to DecimalPrec
\* significant digits, an exact quotient as close to the ideal exponent
\* x.e - y.e as its digits allow
DecDiv(x, y) ==
    LET a   == IntOfDigits(x.d)
        b   == IntOfDigits(y.d)
        sgn == (x.s + y.s) % 2
        res == DivDigits(a % b, b, DigitsOfInt(a \div b), 0)
    IN  IF a = 0 THEN Dec(sgn, <<0>>, x.e - y.e)
        ELSE [s |-> sgn, d |-> res.d, e |-> x.e - y.e - res.k]

RECURSIVE MulDigits(_, _, _)
\* the digits of d * m + carry
MulDigits(d, m, carry) ==
    IF d = <<>> THEN DigitsOfInt(carry)
    ELSE LET p == d[Len(d)] * m + carry
         IN  Append(MulDigits(SubSeq(d, 1, Len(d) - 1), m, p \div 10), p % 10)

\* Decimal.__mul__: the exact product, then _fix
DecMul(x, y) ==
    LET sgn == (x.s + y.s) % 2
    IN  IF DecIsZero(x) \/ DecIsZero(y) THEN Dec(sgn, <<0>>, x.e + y.e)
        ELSE DecFix([s |-> sgn, d |-> MulDigits(y.d, IntOfDigits(x.d), 0),
                     e |-> x.e + y.e])

\* a Decimal written to a Numeric(precision, scale) column and read back:
\* the store keeps a float, and the value read is that float printed with
\* scale decimals ("%.2f").  A value half way between two goes to the even
\* one here; in the code the float next to it decides
NumericColumn(x, scale) ==
    IF x.e >= 0 - scale
    THEN Dec(x.s, x.d \o Zeros(x.e + scale), 0 - scale)
    ELSE LET n    == 0 - scale - x.e
             d    == Zeros(n + 1 - Len(x.d)) \o x.d
             keep == SubSeq(d, 1, Len(d) - n)
             rest == SubSeq(d, Len(d) - n + 1, Len(d))
             up   == \/ rest[1] > 5
                     \/ rest[1] = 5 /\ ~AllZero(Tail(rest))
                     \/ rest[1] = 5 /\ AllZero(Tail(rest))
                                    /\ keep[Len(keep)] % 2 = 1
         IN  Dec(x.s, IF up THEN IncDigits(keep) ELSE keep, 0 - scale)

(***************************************************************************)
(* Strings <-> Decimal                                                     *)
(***************************************************************************)
RECURSIVE DigitsOfChars(_)
DigitsOfChars(s) ==
    IF s = <<>> THEN <<>> ELSE <<CharDigit(s[1])>> \o DigitsOfChars(Tail(s))

RECURSIVE CharsOfDigits(_)
CharsOfDigits(d) ==
    IF d = <<>> THEN <<>> ELSE <<DigitChars[d[1] + 1]>> \o CharsOfDigits(Tail(d))

DotPos(s) == IF \E i \in 1..Len(s) : s[i] = "."
             THEN CHOOSE i \in 1..Len(s) : s[i] = "."
             ELSE 0

\* Decimal(str) for a literal [-]digits[.digits]
StrToDec(str) ==
    LET sgn  == IF str # <<>> /\ str[1] = "-" THEN 1 ELSE 0
        s    == IF sgn = 1 THEN Tail(str) ELSE str
        dot  == DotPos(s)
        ip   == IF dot = 0 THEN s ELSE SubSeq(s, 1, dot - 1)
        fp   == IF dot = 0 THEN <<>> ELSE SubSeq(s, dot + 1, Len(s))
    IN  Dec(sgn, DigitsOfChars(ip \o fp), 0 - Len(fp))

\* str(Decimal) = Decimal.__str__ for an exponent <= 0 (plain notation)
DecToStr(x) ==
    LET left == x.e + Len(x.d)
        sg   == IF x.s = 1 THEN <<"-">> ELSE <<>>
    IN  IF x.e = 0 THEN sg \o CharsOfDigits(x.d)
        ELSE IF left <= 0
             THEN sg \o <<"0", ".">> \o CharsOfDigits(Zeros(0 - left) \o x.d)
        ELSE sg \o CharsOfDigits(SubSeq(x.d, 1, left)) \o <<".">>
                \o CharsOfDigits(SubSeq(x.d, left + 1, Len(x.d)))

(***************************************************************************)
(* Bounds of the model and the inputs the operations are tried on.         *)
(***************************************************************************)
\* the clock advances in steps of half a TTL, MaxTicks times at most
MaxTicks == 2

\* provider requests issued at most
MaxFetches == 2

\* transaction rows stored at most
MaxTx == 2

TickStep == EXCHANGE_RATE_CACHE_TTL \div 2

\* the requests the event loop can hold at a time
Procs == {1, 2}

None == <<>>

Some(v) == <<v>>

\* the mock_rates_response of tests/conftest.py, each rate as str(rate)
PayloadA ==
    [c \in {"USD", "JPY", "BRL", "EUR"} |->
        CASE c = "USD" -> <<"1", ".", "1", "8">>
          [] c = "JPY" -> <<"1", "2", "9", ".", "5", "5">>
          [] c = "BRL" -> <<"6", ".", "3", "5">>
          [] c = "EUR" -> <<"1", ".", "0">>]

\* the quote of an earlier day
PayloadB ==
    [c \in {"USD", "JPY", "BRL", "EUR"} |->
        CASE c = "USD" -> <<"1", ".", "2", "5">>
          [] c = "JPY" -> <<"1", "3", "0">>
          [] c = "BRL" -> <<"6", ".", "4">>
          [] c = "EUR" -> <<"1">>]

\* a rates mapping with a currency the service does not support, without
\* most of the supported ones, and with a zero rate
PayloadOdd ==
    [c \in {"GBP", "USD"} |->
        CASE c = "GBP" -> <<"0", ".", "8", "5">>
          [] c = "USD" -> <<"0">>]

\* "rates": {}
PayloadEmpty == [c \in {} |-> <<>>]

\* the rates mappings the provider answers with
Payloads == {PayloadA, PayloadOdd, PayloadEmpty}

Users == {"user_A", "user_B"}

UserInputs == Users \cup {"unknown_user"}

\* Decimal amounts handed to the conversion service
AmountInputs == {DecOfInt(10000, -2), DecOfInt(0, -2), DecOfInt(-500, -2)}

Times == {k * TickStep : k \in 0..MaxTicks}

VARIABLES
    now,            \* datetime.now(timezone.utc), in seconds
    cache,          \* RateService.cache: base currency -> {rates, expires_at}
    exchange_rates, \* the rows of table exchange_rates (the backup store)
    transactions,   \* the rows of table transactions
    req,            \* per request slot: the call suspended at the provider
                    \* request, or None
    fetches,        \* provider requests issued so far
    last            \* the call that returned or raised last, with its outcome

vars == <<now, cache, exchange_rates, transactions, req, fetches, last>>

(***************************************************************************)
(* RateService                                                             *)
(***************************************************************************)
\* _fetch_from_external_api: {currency: Decimal(str(rate))}
DecimalRates(payload) == [c \in DOMAIN payload |-> StrToDec(payload[c])]

\* _save_rates_to_db: {currency: str(rate)}
StrRates(rates) == [c \in DOMAIN rates |-> DecToStr(rates[c])]

\* CacheFresh with the comparison turned round: an entry counts as fresh
\* once it has expired
CacheFreshInverted ==
    /\ EXCHANGE_RATE_BASE_CURRENCY \in DOMAIN cache
    /\ now > cache[EXCHANGE_RATE_BASE_CURRENCY].expires_at

\* _get_rates: the cache entry of the base currency is there and not expired
CacheFresh ==
    /\ EXCHANGE_RATE_BASE_CURRENCY \in DOMAIN cache
    /\ now < cache[EXCHANGE_RATE_BASE_CURRENCY].expires_at

\* CacheAfterFetch without the TTL: the entry expires as it is written
CacheAfterFetchNoTTL(rates) ==
    (EXCHANGE_RATE_BASE_CURRENCY :> [rates |-> rates, expires_at |-> now])

\* CacheAfterFetch updating the entry key by key: the rates of the entry
\* that are not in the new mapping stay
CacheAfterFetchMerged(rates) ==
    LET old == IF EXCHANGE_RATE_BASE_CURRENCY \in DOMAIN cache
               THEN cache[EXCHANGE_RATE_BASE_CURRENCY].rates
               ELSE [c \in {} |-> 0]
    IN  (EXCHANGE_RATE_BASE_CURRENCY :>
            [rates |-> [c \in DOMAIN rates \cup DOMAIN old |->
                           IF c \in DOMAIN rates THEN rates[c] ELSE old[c]],
             expires_at |-> now + EXCHANGE_RATE_CACHE_TTL])

\* _get_rates, after a successful fetch: the new cache
CacheAfterFetch(rates) ==
    (EXCHANGE_RATE_BASE_CURRENCY :>
        [rates |-> rates, expires_at |-> now + EXCHANGE_RATE_CACHE_TTL])

\* SaveRatesToDb that saves the first fetch only: once the cache has an
\* entry, nothing more is written
SaveRatesToDbFirstOnly(rates, saveOk) ==
    IF saveOk /\ EXCHANGE_RATE_BASE_CURRENCY \notin DOMAIN cache
    THEN Append(exchange_rates,
                [base_currency |-> EXCHANGE_RATE_BASE_CURRENCY,
                 rates |-> StrRates(rates), last_updated |-> now])
    ELSE exchange_rates

\* _save_rates_to_db: the table after the commit, or unchanged after the
\* rollback of a failed one
SaveRatesToDb(rates, saveOk) ==
    IF saveOk
    THEN Append(exchange_rates,
                [base_currency |-> EXCHANGE_RATE_BASE_CURRENCY,
                 rates |-> StrRates(rates), last_updated |-> now])
    ELSE exchange_rates

\* LatestRows with the order turned round: .order_by(last_updated.asc())
OldestRows ==
    {i \in 1..Len(exchange_rates) :
        /\ exchange_rates[i].base_currency = EXCHANGE_RATE_BASE_CURRENCY
        /\ \A j \in 1..Len(exchange_rates) :
              exchange_rates[j].base_currency = EXCHANGE_RATE_BASE_CURRENCY
                  => exchange_rates[j].last_updated
                        >= exchange_rates[i].last_updated}

\* the rows .filter(base_currency == ...).order_by(last_updated.desc())
\* may put first
LatestRows ==
    {i \in 1..Len(exchange_rates) :
        /\ exchange_rates[i].base_currency = EXCHANGE_RATE_BASE_CURRENCY
        /\ \A j \in 1..Len(exchange_rates) :
              exchange_rates[j].base_currency = EXCHANGE_RATE_BASE_CURRENCY
                  => exchange_rates[j].last_updated
                        <= exchange_rates[i].last_updated}

\* _get_rates_from_db reading row i as the first one: Some(rates), or None
\* when there is no row or the query raised
GetRatesFromDb(i, readOk) ==
    IF readOk /\ i \in 1..Len(exchange_rates)
    THEN Some([c \in DOMAIN exchange_rates[i].rates |->
                  StrToDec(exchange_rates[i].rates[c])])
    ELSE None

\* "if db_rates:" a dict is true when it is there and not empty
Truthy(opt) == opt # None /\ DOMAIN opt[1] # {}

\* Fallback with the two sources swapped: the database first, the cache
\* entry after it
FallbackDbFirst(dbRates) ==
    IF Truthy(dbRates)
    THEN [status |-> "ok", rates |-> dbRates]
    ELSE IF EXCHANGE_RATE_BASE_CURRENCY \in DOMAIN cache
         THEN [status |-> "ok", rates |-> Some(cache[EXCHANGE_RATE_BASE_CURRENCY].rates)]
    ELSE [status |-> "ExternalAPIException", rates |-> None]

\* Fallback without the expired cache entry: the database or nothing
FallbackNoCache(dbRates) ==
    IF Truthy(dbRates)
    THEN [status |-> "ok", rates |-> dbRates]
    ELSE [status |-> "ExternalAPIException", rates |-> None]

\* _get_rates, except branch: the expired cache entry, else the database,
\* else ExternalAPIException
Fallback(dbRates) ==
    IF EXCHANGE_RATE_BASE_CURRENCY \in DOMAIN cache
    THEN [status |-> "ok", rates |-> Some(cache[EXCHANGE_RATE_BASE_CURRENCY].rates)]
    ELSE IF Truthy(dbRates)
         THEN [status |-> "ok", rates |-> dbRates]
    ELSE [status |-> "ExternalAPIException", rates |-> None]

\* ValidateCurrencies with a loop over [from_currency] alone
ValidateFromOnly(from_currency, to_currency) ==
    from_currency \in SUPPORTED_CURRENCIES

\* get_exchange_rate: the validation loop; the first unsupported code raises
ValidateCurrencies(from_currency, to_currency) ==
    /\ from_currency \in SUPPORTED_CURRENCIES
    /\ to_currency \in SUPPORTED_CURRENCIES

\* PairRate without the inversion: a pair that ends at the base gets the
\* rate of the pair that starts at it
PairRateNotInverted(rates, from_currency, to_currency) ==
    LET ok(r)  == [status |-> "ok", rate |-> r]
        err(e) == [status |-> e, rate |-> DecOfInt(0, 0)]
        div(x, y) ==
            IF DecIsZero(y)
            THEN (IF DecIsZero(x) THEN err("InvalidOperation")
                  ELSE err("DivisionByZero"))
            ELSE ok(DecDiv(x, y))
    IN  IF from_currency = EXCHANGE_RATE_BASE_CURRENCY
        THEN (IF to_currency \in DOMAIN rates THEN ok(rates[to_currency])
              ELSE err("KeyError"))
        ELSE IF to_currency = EXCHANGE_RATE_BASE_CURRENCY
             THEN (IF from_currency \in DOMAIN rates
                   THEN ok(rates[from_currency])
                   ELSE err("KeyError"))
        ELSE IF to_currency \in DOMAIN rates /\ from_currency \in DOMAIN rates
             THEN div(rates[to_currency], rates[from_currency])
        ELSE err("KeyError")

\* get_exchange_rate: the rate of the pair out of the rates of _get_rates;
\* a missing key raises KeyError, a zero divisor a decimal exception
PairRate(rates, from_currency, to_currency) ==
    LET ok(r)  == [status |-> "ok", rate |-> r]
        err(e) == [status |-> e, rate |-> DecOfInt(0, 0)]
        div(x, y) ==
            IF DecIsZero(y)
            THEN (IF DecIsZero(x) THEN err("InvalidOperation")
                  ELSE err("DivisionByZero"))
            ELSE ok(DecDiv(x, y))
    IN  IF from_currency = EXCHANGE_RATE_BASE_CURRENCY
        THEN (IF to_currency \in DOMAIN rates THEN ok(rates[to_currency])
              ELSE err("KeyError"))
        ELSE IF to_currency = EXCHANGE_RATE_BASE_CURRENCY
             THEN (IF from_currency \in DOMAIN rates
                   THEN div(DecOne, rates[from_currency])
                   ELSE err("KeyError"))
        ELSE IF to_currency \in DOMAIN rates /\ from_currency \in DOMAIN rates
             THEN div(rates[to_currency], rates[from_currency])
        ELSE err("KeyError")

(***************************************************************************)
(* Calls and their outcomes                                                *)
(***************************************************************************)
\* what a call returned or raised; the fields a call does not have keep the
\* values of NoCall.  fetch tells how the provider answered the request the
\* call issued ("none": it issued none), db how table exchange_rates
\* answered the query of _get_rates_from_db ("none": it was not queried),
\* save how it answered the commit of _save_rates_to_db ("none": no commit),
\* dates the from_date and to_date texts of a request the endpoint refused
NoCall ==
    [op |-> "none", user_id |-> "", from_currency |-> "", to_currency |-> "",
     amount |-> None, limit |-> None, offset |-> None, from_date |-> None,
     to_date |-> None, fetch |-> "none", db |-> "none", save |-> "none",
     dates |-> None, served |-> None, status |-> "", rates |-> None, rate |-> None,
     target |-> None, transaction_id |-> None, timestamp |-> None,
     transactions |-> <<>>, count |-> 0, total |-> 0]

ConvertCall(user_id, from_currency, to_currency, amount) ==
    [NoCall EXCEPT !.op = "convert_currency", !.user_id = user_id,
                   !.from_currency = from_currency,
                   !.to_currency = to_currency, !.amount = Some(amount)]

RateCall(from_currency, to_currency) ==
    [NoCall EXCEPT !.op = "get_exchange_rate", !.from_currency = from_currency,
                   !.to_currency = to_currency]

\* GET /rates?base=...: the base of the response is the configured one
\* RatesCall without the override: the base of the request is kept
RatesCallAsAsked(base) ==
    [NoCall EXCEPT !.op = "get_exchange_rates", !.from_currency = base]

RatesCall(base) ==
    [NoCall EXCEPT !.op = "get_exchange_rates",
                   !.from_currency = IF base # EXCHANGE_RATE_BASE_CURRENCY
                                     THEN EXCHANGE_RATE_BASE_CURRENCY
                                     ELSE base]

Raised(call, status) == [call EXCEPT !.status = status]

(***************************************************************************)
(* ConversionService                                                       *)
(***************************************************************************)
\* AmountRejected with "<" for "<=": zero passes
AmountRejectedBelowZero(amount) == amount.s = 1 /\ ~DecIsZero(amount)

\* convert_currency: "if amount <= Decimal('0'): raise InvalidAmountException"
AmountRejected(amount) == DecLeqZero(amount)

\* Precheck without the validation of get_exchange_rate: the codes reach
\* the rates mapping unchecked
PrecheckAmountOnly(call) ==
    IF call.op = "convert_currency" /\ AmountRejected(call.amount[1])
    THEN "InvalidAmountException"
    ELSE "ok"

\* what a call raises before _get_rates is reached, "ok" when it reaches it
Precheck(call) ==
    IF call.op = "convert_currency" /\ AmountRejected(call.amount[1])
    THEN "InvalidAmountException"
    ELSE IF /\ call.op \in {"convert_currency", "get_exchange_rate"}
            /\ ~ValidateCurrencies(call.from_currency, call.to_currency)
         THEN "InvalidCurrencyException"
    ELSE "ok"

\* NextId of a store that counts down
NextIdDescending == 0 - Len(transactions)

\* NextId of a store that does not advance: the greatest id is given again
NextIdReused ==
    IF transactions = <<>> THEN 1
    ELSE CHOOSE m \in {transactions[i].id : i \in 1..Len(transactions)} :
             \A i \in 1..Len(transactions) : transactions[i].id <= m

\* the id the store gives the next row of table transactions
NextId ==
    IF transactions = <<>> THEN 1
    ELSE 1 + (CHOOSE m \in {transactions[i].id : i \in 1..Len(transactions)} :
                 \A i \in 1..Len(transactions) : transactions[i].id <= m)

\* a row of table transactions, as the store gives it back: the amounts in
\* Numeric(18, 2) columns, the rate in a Numeric(8, 2) column
TransactionRow(id, call, target_amount, exchange_rate, timestamp) ==
    [id |-> id, user_id |-> call.user_id,
     source_currency |-> call.from_currency,
     target_currency |-> call.to_currency,
     source_amount |-> NumericColumn(call.amount[1], 2),
     target_amount |-> NumericColumn(target_amount, 2),
     exchange_rate |-> NumericColumn(exchange_rate, 2),
     timestamp |-> timestamp]

\* PersistTransaction with a store that keeps the row of a failed commit
PersistTransactionAnyway(call, converted_amount, exchange_rate, commitOk) ==
    Append(transactions,
           TransactionRow(NextId, call, converted_amount, exchange_rate, now))

\* convert_currency: Transaction(...); db.add; db.commit.  The table after
\* the commit, unchanged when the commit raises
PersistTransaction(call, converted_amount, exchange_rate, commitOk) ==
    IF commitOk
    THEN Append(transactions,
                TransactionRow(NextId, call, converted_amount, exchange_rate,
                               now))
    ELSE transactions

\* the rest of a call once _get_rates has returned acq.rates or raised
\* acq.status: the outcome of the call and the table of transactions after it
Finish(call, acq, commitOk) ==
    IF acq.status # "ok"
    THEN [last |-> Raised(call, acq.status), transactions |-> transactions]
    ELSE IF call.op = "get_exchange_rates"
         THEN [last |-> [call EXCEPT !.status = "ok", !.rates = acq.rates,
                                     !.timestamp = Some(now)],
               transactions |-> transactions]
    ELSE LET pr == PairRate(acq.rates[1], call.from_currency, call.to_currency)
             got == [call EXCEPT !.rates = acq.rates]
         IN  IF pr.status # "ok"
             THEN [last |-> Raised(got, pr.status), transactions |-> transactions]
             ELSE IF call.op = "get_exchange_rate"
                  THEN [last |-> [got EXCEPT !.status = "ok",
                                             !.rate = Some(pr.rate)],
                        transactions |-> transactions]
             ELSE LET converted_amount == DecMul(call.amount[1], pr.rate)
                      rows == PersistTransaction(call, converted_amount,
                                                 pr.rate, commitOk)
                  IN  IF ~commitOk
                      THEN [last |-> Raised(got, "SQLAlchemyError"),
                            transactions |-> rows]
                      ELSE [last |-> [got EXCEPT
                                        !.status = "ok",
                                        !.rate = Some(pr.rate),
                                        !.target = Some(converted_amount),
                                        !.transaction_id = Some(rows[Len(rows)].id),
                                        !.timestamp = Some(rows[Len(rows)].timestamp)],
                            transactions |-> rows]

\* conversions suspended at the provider request
PendingConversions ==
    Cardinality({p \in Procs : req[p] # None /\ req[p][1].op = "convert_currency"})

\* a call from its start to its first suspension point: it raises at once,
\* or runs to its end on a fresh cache entry, or issues the provider request
\* and waits.  A new request takes the first free slot
Begin(p, call) ==
    /\ req[p] = None
    /\ \A q \in Procs : q < p => req[q] # None
    /\ IF Precheck(call) # "ok"
       THEN /\ last' = Raised(call, Precheck(call))
            /\ UNCHANGED <<now, cache, exchange_rates, transactions, req, fetches>>
       ELSE IF CacheFresh
            THEN \E commitOk \in BOOLEAN :
                   LET f == Finish(call,
                                   [status |-> "ok",
                                    rates |-> Some(cache[EXCHANGE_RATE_BASE_CURRENCY].rates)],
                                   commitOk)
                   IN  /\ last' = f.last
                       /\ transactions' = f.transactions
                       /\ UNCHANGED <<now, cache, exchange_rates, req, fetches>>
       ELSE /\ fetches < MaxFetches
            /\ req' = [req EXCEPT ![p] = Some(call)]
            /\ fetches' = fetches + 1
            /\ UNCHANGED <<now, cache, exchange_rates, transactions, last>>

\* ConversionService.convert_currency
ConvertCurrency(p, user_id, from_currency, to_currency, amount) ==
    /\ Len(transactions) + PendingConversions < MaxTx
    /\ Begin(p, ConvertCall(user_id, from_currency, to_currency, amount))

\* RateService.get_exchange_rate
GetExchangeRate(p, from_currency, to_currency) ==
    Begin(p, RateCall(from_currency, to_currency))

\* GET /rates
GetExchangeRates(p, base) == Begin(p, RatesCall(base))

\* the provider answers 200 with a rates mapping: _get_rates caches the
\* rates, saves them and returns them, and the call runs to its end
FetchSucceeds(p, payload, saveOk, commitOk) ==
    /\ req[p] # None
    /\ LET rates == DecimalRates(payload)
           f == Finish([req[p][1] EXCEPT
                          !.fetch = "ok",
                          !.save = IF saveOk THEN "ok" ELSE "error"],
                       [status |-> "ok", rates |-> Some(rates)], commitOk)
       IN  /\ cache' = CacheAfterFetch(rates)
           /\ exchange_rates' = SaveRatesToDb(rates, saveOk)
           /\ last' = f.last
           /\ transactions' = f.transactions
    /\ req' = [req EXCEPT ![p] = None]
    /\ UNCHANGED <<now, fetches>>

\* FetchFails with the snapshot of the fallback installed in the cache
FetchFailsInstalls(p, readOk, commitOk) ==
    /\ req[p] # None
    /\ \E i \in IF LatestRows = {} THEN {0} ELSE LatestRows :
         LET acq == Fallback(GetRatesFromDb(i, readOk))
             f == Finish([req[p][1] EXCEPT !.fetch = "failed"], acq, commitOk)
         IN  /\ last' = f.last
             /\ transactions' = f.transactions
             /\ cache' = IF acq.status = "ok" THEN CacheAfterFetch(acq.rates[1])
                         ELSE cache
    /\ req' = [req EXCEPT ![p] = None]
    /\ UNCHANGED <<now, exchange_rates, fetches>>

\* FetchFails with a retry: the failed request is issued again and the call
\* waits on
FetchFailsRetried(p, readOk, commitOk) ==
    /\ req[p] # None
    /\ fetches < MaxFetches
    /\ fetches' = fetches + 1
    /\ UNCHANGED <<now, cache, exchange_rates, transactions, req, last>>

\* the provider request fails (status other than 200, no rates field, no
\* answer): _get_rates falls back, and the call runs to its end
FetchFails(p, readOk, commitOk) ==
    /\ req[p] # None
    /\ \E i \in IF LatestRows = {} THEN {0} ELSE LatestRows :
         LET queried == EXCHANGE_RATE_BASE_CURRENCY \notin DOMAIN cache
             f == Finish([req[p][1] EXCEPT
                            !.fetch = "failed",
                            !.db = IF ~queried THEN "none"
                                   ELSE IF readOk THEN "ok" ELSE "error"],
                         Fallback(GetRatesFromDb(i, readOk)), commitOk)
         IN  /\ last' = f.last
             /\ transactions' = f.transactions
    /\ req' = [req EXCEPT ![p] = None]
    /\ UNCHANGED <<now, cache, exchange_rates, fetches>>

\* what the provider sends back: a status code and a JSON body
HttpAnswer(status_code, body) == [status_code |-> status_code, body |-> body]

\* FetchFromExternalApi without the test of the status code
FetchFromExternalApiAnyStatus(response) ==
    IF response = None
    THEN [status |-> "ConnectError", detail |-> [text |-> ""], rates |-> None]
    ELSE IF "rates" \notin DOMAIN response[1].body
         THEN [status |-> "ExternalAPIException",
               detail |-> [text |-> "Invalid response from exchange rate API"],
               rates |-> None]
    ELSE [status |-> "ok", detail |-> [text |-> ""],
          rates |-> Some(DecimalRates(response[1].body.rates))]

\* _fetch_from_external_api on the outcome of client.get: no answer (httpx
\* raises), or an answer that is refused for its status code, refused for
\* want of "rates", or turned into decimal rates
FetchFromExternalApi(response) ==
    IF response = None
    THEN [status |-> "ConnectError", detail |-> [text |-> ""], rates |-> None]
    ELSE IF response[1].status_code # 200
         THEN [status |-> "ExternalAPIException",
               detail |-> [text |-> "API returned status code",
                           status_code |-> response[1].status_code],
               rates |-> None]
    ELSE IF "rates" \notin DOMAIN response[1].body
         THEN [status |-> "ExternalAPIException",
               detail |-> [text |-> "Invalid response from exchange rate API"],
               rates |-> None]
    ELSE [status |-> "ok", detail |-> [text |-> ""],
          rates |-> Some(DecimalRates(response[1].body.rates))]

\* the provider request of slot p ends with response: _get_rates goes on
\* with the rates _fetch_from_external_api returned, or falls back when it
\* raised
ProviderResponds(p, response, saveOk, readOk) ==
    IF FetchFromExternalApi(response).status = "ok"
    THEN FetchSucceeds(p, response[1].body.rates, saveOk, TRUE)
    ELSE FetchFails(p, readOk, TRUE)

\* the quote of the provider at time t: that of the earlier day at first,
\* the present one from the first tick on
ProviderQuote(t) == IF t < TickStep THEN PayloadB ELSE PayloadA

\* the provider serves the request of slot p: its answer, with the quote of
\* this instant, is on its way to the service
ProviderServes(p) ==
    /\ req[p] # None
    /\ req[p][1].served = None
    /\ req' = [req EXCEPT ![p] =
                 Some([req[p][1] EXCEPT
                         !.served = Some([payload |-> ProviderQuote(now), at |-> now])])]
    /\ UNCHANGED <<now, cache, exchange_rates, transactions, fetches, last>>

\* ResponseArrives handing over the quote of the earlier day whatever the
\* provider served
ResponseArrivesStale(p, saveOk) ==
    /\ req[p] # None
    /\ req[p][1].served # None
    /\ FetchSucceeds(p, PayloadB, saveOk, TRUE)

\* the answer served to slot p reaches the service: the await of
\* _fetch_from_external_api returns and _get_rates goes on
ResponseArrives(p, saveOk) ==
    /\ req[p] # None
    /\ req[p][1].served # None
    /\ FetchSucceeds(p, req[p][1].served[1].payload, saveOk, TRUE)

\* time passes
Tick ==
    /\ now + TickStep <= MaxTicks * TickStep
    /\ now' = now + TickStep
    /\ UNCHANGED <<cache, exchange_rates, transactions, req, fetches, last>>

(***************************************************************************)
(* TransactionService                                                      *)
(***************************************************************************)
\* Matching with ">" for ">=": a row written at from_date is left out
MatchingAfter(user_id, from_date, to_date) ==
    {i \in 1..Len(transactions) :
        /\ transactions[i].user_id = user_id
        /\ from_date # None => transactions[i].timestamp > from_date[1]
        /\ to_date # None => transactions[i].timestamp <= to_date[1]}

\* the rows .filter(user_id == ...).filter(timestamp >= from_date)
\* .filter(timestamp <= to_date) keeps, by their position in the table
Matching(user_id, from_date, to_date) ==
    {i \in 1..Len(transactions) :
        /\ transactions[i].user_id = user_id
        /\ from_date # None => transactions[i].timestamp >= from_date[1]
        /\ to_date # None => transactions[i].timestamp <= to_date[1]}

\* .order_by(desc(timestamp)): the orders the store may return the rows in;
\* SQL leaves the order of rows with equal timestamps to the store
Orderings(rows) ==
    {s \in [1..Cardinality(rows) -> rows] :
        /\ \A i, j \in 1..Cardinality(rows) : i # j => s[i] # s[j]
        /\ \A i, j \in 1..Cardinality(rows) :
              i < j => transactions[s[i]].timestamp >= transactions[s[j]].timestamp}

Min(a, b) == IF a < b THEN a ELSE b

\* Page with the two calls taken in the order they are written: the first
\* limit rows, and of those the rows after the first offset
PageLimitFirst(s, limit, offset) ==
    LET o == IF offset # None /\ offset[1] # 0 THEN offset[1] ELSE 0
        n == IF limit # None /\ limit[1] # 0 THEN Min(Len(s), limit[1])
             ELSE Len(s)
    IN  SubSeq(s, o + 1, n)

\* "if limit: query.limit(limit)", "if offset: query.offset(offset)"
Page(s, limit, offset) ==
    LET o == IF offset # None /\ offset[1] # 0 THEN offset[1] ELSE 0
        n == IF limit # None /\ limit[1] # 0 THEN Min(Len(s), o + limit[1])
             ELSE Len(s)
    IN  SubSeq(s, o + 1, n)

\* _format_transaction
FormatTransaction(tx) ==
    [transaction_id |-> tx.id,
     from |-> [currency |-> tx.source_currency, amount |-> tx.source_amount],
     to |-> [currency |-> tx.target_currency, amount |-> tx.target_amount],
     rate |-> tx.exchange_rate,
     timestamp |-> tx.timestamp]

ListCall(user_id, limit, offset, from_date, to_date) ==
    [NoCall EXCEPT !.op = "get_user_transactions", !.user_id = user_id,
                   !.limit = limit, !.offset = offset,
                   !.from_date = from_date, !.to_date = to_date]

\* NothingFound without the check: no total raises
NothingFoundNever(total) == total < 0

\* "total = query.count(); if total == 0: raise UserNotFoundException"
NothingFound(total) == total = 0

\* get_user_transactions with the total counted on the page, after limit
\* and offset
GetUserTransactionsPageTotal(user_id, limit, offset, from_date, to_date) ==
    LET call == ListCall(user_id, limit, offset, from_date, to_date)
        rows == Matching(user_id, from_date, to_date)
    IN  /\ IF NothingFound(Cardinality(rows))
           THEN last' = Raised(call, "UserNotFoundException")
           ELSE \E s \in Orderings(rows) :
                  LET page == Page(s, limit, offset)
                  IN  last' = [call EXCEPT
                                 !.status = "ok",
                                 !.transactions =
                                     [k \in 1..Len(page) |->
                                         FormatTransaction(transactions[page[k]])],
                                 !.count = Len(page),
                                 !.total = Len(page)]
        /\ UNCHANGED <<now, cache, exchange_rates, transactions, req, fetches>>

\* GetUserTransactions that takes the rows of the user out of the table
GetUserTransactionsConsumes(user_id, limit, offset, from_date, to_date) ==
    LET call == ListCall(user_id, limit, offset, from_date, to_date)
        rows == Matching(user_id, from_date, to_date)
        total == Cardinality(rows)
    IN  /\ IF NothingFound(total)
           THEN last' = Raised(call, "UserNotFoundException")
           ELSE \E s \in Orderings(rows) :
                  last' = [call EXCEPT
                             !.status = "ok",
                             !.transactions =
                                 [k \in 1..Len(s) |-> FormatTransaction(transactions[s[k]])],
                             !.count = Len(s),
                             !.total = total]
        /\ transactions' = SelectSeq(transactions, LAMBDA tx : tx.user_id # user_id)
        /\ UNCHANGED <<now, cache, exchange_rates, req, fetches>>

\* GetUserTransactions that raises for an empty page as for no match
GetUserTransactionsEmptyPageRaises(user_id, limit, offset, from_date, to_date) ==
    LET call == ListCall(user_id, limit, offset, from_date, to_date)
        rows == Matching(user_id, from_date, to_date)
        total == Cardinality(rows)
    IN  /\ \E s \in Orderings(rows) :
              LET page == Page(s, limit, offset)
              IN  IF NothingFound(Len(page))
                  THEN last' = Raised(call, "UserNotFoundException")
                  ELSE last' = [call EXCEPT
                                  !.status = "ok",
                                  !.transactions =
                                      [k \in 1..Len(page) |->
                                          FormatTransaction(transactions[page[k]])],
                                  !.count = Len(page),
                                  !.total = total]
        /\ UNCHANGED <<now, cache, exchange_rates, transactions, req, fetches>>

\* TransactionService.get_user_transactions
GetUserTransactions(user_id, limit, offset, from_date, to_date) ==
    LET call == ListCall(user_id, limit, offset, from_date, to_date)
        rows == Matching(user_id, from_date, to_date)
        total == Cardinality(rows)
    IN  /\ IF NothingFound(total)
           THEN last' = Raised(call, "UserNotFoundException")
           ELSE \E s \in Orderings(rows) :
                  LET page == Page(s, limit, offset)
                  IN  last' = [call EXCEPT
                                 !.status = "ok",
                                 !.transactions =
                                     [k \in 1..Len(page) |->
                                         FormatTransaction(transactions[page[k]])],
                                 !.count = Len(page),
                                 !.total = total]
        /\ UNCHANGED <<now, cache, exchange_rates, transactions, req, fetches>>

(***************************************************************************)
(* The HTTP boundary                                                       *)
(***************************************************************************)
\* Quantize that leaves the amount as it came
QuantizeNothing(v) == [status |-> "ok", value |-> v]

\* ConversionRequest.validate_amount: v.quantize(Decimal("0.01")), which
\* raises InvalidOperation when the result has more digits than the context
\* allows
Quantize(v) ==
    LET q == NumericColumn(v, 2)
    IN  IF Len(q.d) > DecimalPrec
        THEN [status |-> "InvalidOperation", value |-> v]
        ELSE [status |-> "ok", value |-> q]

\* ConversionRequest: amount gt=0 and the two currency validators; the
\* errors of all fields make one RequestValidationError
ConversionRequestValid(from_currency, to_currency, amount) ==
    /\ ~DecLeqZero(amount)
    /\ from_currency \in SUPPORTED_CURRENCIES
    /\ to_currency \in SUPPORTED_CURRENCIES

\* POST /convert
PostConvert(p, user_id, from_currency, to_currency, amount) ==
    LET asked == ConvertCall(user_id, from_currency, to_currency, amount)
    IN  IF ~ConversionRequestValid(from_currency, to_currency, amount)
        THEN /\ last' = Raised(asked, "RequestValidationError")
             /\ UNCHANGED <<now, cache, exchange_rates, transactions, req, fetches>>
        ELSE IF Quantize(amount).status # "ok"
             THEN /\ last' = Raised(asked, Quantize(amount).status)
                  /\ UNCHANGED <<now, cache, exchange_rates, transactions, req,
                                 fetches>>
        ELSE ConvertCurrency(p, user_id, from_currency, to_currency,
                             Quantize(amount).value)

\* a from_date or to_date text: not ISO, or an ISO date and time (time, in
\* seconds) without offset, with Z, or with an offset (tz, in seconds)
DateText(form, time, tz) == [form |-> form, time |-> time, tz |-> tz]

\* the endpoint parsing a date text: absent stays absent; "Z" is replaced
\* by "+00:00"; datetime.fromisoformat raises ValueError, or gives a time
\* taken as UTC when it has no offset and moved to UTC when it has one
ParseDate(text) ==
    IF text = None THEN [status |-> "ok", value |-> None]
    ELSE IF text[1].form = "invalid"
         THEN [status |-> "ValueError", value |-> None]
    ELSE IF text[1].form = "naive"
         THEN [status |-> "ok", value |-> Some(text[1].time)]
    ELSE IF text[1].form = "Z"
         THEN [status |-> "ok", value |-> Some(text[1].time)]
    ELSE [status |-> "ok", value |-> Some(text[1].time - text[1].tz)]

\* Query(None, gt=0) for limit and Query(None, ge=0) for offset
QueryValid(limit, offset) ==
    /\ limit # None => limit[1] > 0
    /\ offset # None => offset[1] >= 0

\* GET /transactions/{user_id}
GetTransactions(user_id, limit, offset, from_date, to_date) ==
    LET asked == [ListCall(user_id, limit, offset, None, None) EXCEPT
                    !.dates = Some([from_date |-> from_date, to_date |-> to_date])]
        refuse(status) ==
            /\ last' = Raised(asked, status)
            /\ UNCHANGED <<now, cache, exchange_rates, transactions, req, fetches>>
    IN  IF ~QueryValid(limit, offset) THEN refuse("RequestValidationError")
        ELSE IF ParseDate(from_date).status # "ok" THEN refuse("HTTPException")
        ELSE IF ParseDate(to_date).status # "ok" THEN refuse("HTTPException")
        ELSE GetUserTransactions(user_id, limit, offset,
                                 ParseDate(from_date).value,
                                 ParseDate(to_date).value)

\* GET /rates: Query(settings.EXCHANGE_RATE_BASE_CURRENCY) gives the
\* parameter its default
GetRates(p, base) ==
    GetExchangeRates(p, IF base = None THEN EXCHANGE_RATE_BASE_CURRENCY ELSE base[1])

\* the exceptions of app.core.exceptions
CurrencyConverterExceptions ==
    {"InvalidCurrencyException", "ExternalAPIException",
     "InvalidAmountException", "UserNotFoundException"}

\* ExceptionStatusCode with the status_code of InvalidCurrencyException for
\* UserNotFoundException and ExternalAPIException too
ExceptionStatusCodeAlike(status) ==
    IF status \in CurrencyConverterExceptions THEN 400 ELSE 500

\* the status_code each of them sets
ExceptionStatusCode(status) ==
    CASE status = "InvalidCurrencyException" -> 400
      [] status = "ExternalAPIException" -> 503
      [] status = "InvalidAmountException" -> 400
      [] status = "UserNotFoundException" -> 404

\* ExceptionHandler without the handlers of the application: the framework
\* answers every exception its own way
ExceptionHandlerOfFramework(status) ==
    IF status \in CurrencyConverterExceptions \cup {"RequestValidationError", "HTTPException"}
    THEN [status_code |-> 400, content |-> [detail |-> status]]
    ELSE [status_code |-> 500, content |-> [detail |-> "Internal Server Error"]]

\* the response to a request that raised: the three exception handlers of
\* the application, and for HTTPException, which has none, the handler of
\* the framework, which answers {"detail": exc.detail}
ExceptionHandler(status) ==
    IF status \in CurrencyConverterExceptions
    THEN [status_code |-> ExceptionStatusCode(status),
          content |-> [error |-> status,
                       status_code |-> ExceptionStatusCode(status),
                       detail |-> status]]
    ELSE IF status = "RequestValidationError"
         THEN [status_code |-> 400,
               content |-> [error |-> "Validation error", status_code |-> 400,
                            detail |-> status]]
    ELSE IF status = "HTTPException"
         THEN [status_code |-> 400,
               content |-> [detail |-> [error |-> "Invalid date format",
                                        detail |-> "Please provide date in ISO format"]]]
    ELSE [status_code |-> 500,
          content |-> [error |-> "Internal server error", status_code |-> 500,
                       detail |-> "An unexpected error occurred"]]

\* the response to the request that call served: 200 with what the endpoint
\* returned, or what the exception handler makes of what it raised
HttpResponse(call) ==
    IF call.status # "ok" THEN ExceptionHandler(call.status)
    ELSE IF call.op = "convert_currency"
         THEN [status_code |-> 200,
               content |-> [transaction_id |-> call.transaction_id[1],
                            user_id |-> call.user_id,
                            from |-> [currency |-> call.from_currency,
                                      amount |-> call.amount[1]],
                            to |-> [currency |-> call.to_currency,
                                    amount |-> call.target[1]],
                            rate |-> call.rate[1],
                            timestamp |-> call.timestamp[1]]]
    ELSE IF call.op = "get_exchange_rates"
         THEN [status_code |-> 200,
               content |-> [base |-> call.from_currency, rates |-> call.rates[1],
                            timestamp |-> call.timestamp[1]]]
    ELSE [status_code |-> 200,
          content |-> [user_id |-> call.user_id,
                       transactions |-> call.transactions,
                       count |-> call.count, total |-> call.total]]

(***************************************************************************)
(* The system                                                              *)
(***************************************************************************)
BackupRow(payload, t) ==
    [base_currency |-> EXCHANGE_RATE_BASE_CURRENCY,
     rates |-> StrRates(DecimalRates(payload)), last_updated |-> t]

\* what table exchange_rates may hold when the process starts: nothing, or
\* the rows earlier runs of the service saved
InitBackups ==
    {<<>>,
     <<BackupRow(PayloadB, 0 - 2 * TickStep), BackupRow(PayloadA, 0 - TickStep)>>,
     <<BackupRow(PayloadA, 0 - 2 * TickStep), BackupRow(PayloadEmpty, 0 - TickStep)>>}

Init ==
    /\ now = 0
    /\ cache = [k \in {} |-> 0]
    /\ exchange_rates \in InitBackups
    /\ transactions = <<>>
    /\ req = [p \in Procs |-> None]
    /\ fetches = 0
    /\ last = NoCall

OptTimes == {None} \cup {Some(t) : t \in Times}

\* the pairs get_exchange_rate is asked for: from the base, to the base,
\* across, a currency to itself, and unsupported codes
RatePairs ==
    {<<"EUR", "USD">>, <<"USD", "EUR">>, <<"USD", "JPY">>, <<"EUR", "EUR">>,
     <<"USD", "USD">>, <<"INVALID", "EUR">>, <<"EUR", "INVALID">>}

\* the pairs conversions are asked for
ConvertPairs == {<<"USD", "EUR">>, <<"EUR", "EUR">>, <<"INVALID", "EUR">>}

\* the rate pipeline: concurrent snapshot acquisitions, from GET /rates and
\* from get_exchange_rate, against a provider that answers with any of
\* Payloads or fails, and a store that may fail
Next ==
    \/ Tick
    \/ \E p \in Procs : GetExchangeRate(p, "USD", "EUR")
    \/ \E p \in Procs, b \in {"EUR", "USD"} : GetExchangeRates(p, b)
    \/ \E p \in Procs, payload \in Payloads, saveOk \in BOOLEAN :
          FetchSucceeds(p, payload, saveOk, TRUE)
    \/ \E p \in Procs, readOk \in BOOLEAN : FetchFails(p, readOk, TRUE)

Spec == Init /\ [][Next]_vars

\* rate lookups for each of RatePairs, one at a time
NextPairs ==
    \/ Tick
    \/ \E ft \in RatePairs : GetExchangeRate(1, ft[1], ft[2])
    \/ \E payload \in Payloads : FetchSucceeds(1, payload, TRUE, TRUE)
    \/ \E readOk \in BOOLEAN : FetchFails(1, readOk, TRUE)

\* the provider request of slot p ends, with an answer or with an error
Response(p) ==
    \/ \E payload \in Payloads, saveOk \in BOOLEAN :
          FetchSucceeds(p, payload, saveOk, TRUE)
    \/ \E readOk \in BOOLEAN : FetchFails(p, readOk, TRUE)

\* the rate pipeline with every provider request ending: httpx gives up a
\* request without answer at its timeout, and the event loop resumes the
\* call that awaits it
SpecFair == Spec /\ \A p \in Procs : WF_vars(Response(p))

\* the outcomes of the provider request: no answer, 200 with rates, 200
\* without rates, 201 with rates, 500 with an error, 500 with rates
Responses ==
    {None,
     Some(HttpAnswer(200, [rates |-> PayloadA])),
     Some(HttpAnswer(200, [error |-> "invalid_access_key"])),
     Some(HttpAnswer(201, [rates |-> PayloadA])),
     Some(HttpAnswer(500, [error |-> "Internal Server Error"])),
     Some(HttpAnswer(500, [rates |-> PayloadB]))}

\* acquisitions against a provider seen through its responses
NextProvider ==
    \/ Tick
    \/ \E p \in Procs : GetExchangeRate(p, "USD", "EUR")
    \/ \E p \in Procs : GetExchangeRates(p, "EUR")
    \/ \E p \in Procs, response \in Responses, saveOk \in BOOLEAN, readOk \in BOOLEAN :
          ProviderResponds(p, response, saveOk, readOk)

SpecProvider == Init /\ [][NextProvider]_vars

\* the rate pipeline over a backup store whose writes all succeed
NextSaved ==
    \/ Tick
    \/ \E p \in Procs : GetExchangeRate(p, "USD", "EUR")
    \/ \E p \in Procs : GetExchangeRates(p, "EUR")
    \/ \E p \in Procs, payload \in Payloads : FetchSucceeds(p, payload, TRUE, TRUE)
    \/ \E p \in Procs, readOk \in BOOLEAN : FetchFails(p, readOk, TRUE)

SpecSaved == Init /\ [][NextSaved]_vars

\* concurrent acquisitions against a provider whose quote changes, each
\* answer travelling for a time of its own
NextServe ==
    \/ Tick
    \/ \E p \in Procs : GetExchangeRates(p, "EUR")
    \/ \E p \in Procs : ProviderServes(p)
    \/ \E p \in Procs, saveOk \in BOOLEAN : ResponseArrives(p, saveOk)
    \/ \E p \in Procs, readOk \in BOOLEAN : FetchFails(p, readOk, TRUE)

SpecServe == Init /\ [][NextServe]_vars

\* concurrent conversions as time passes, and the history of each user
NextRace ==
    \/ Tick
    \/ \E p \in Procs :
          ConvertCurrency(p, "user_A", "USD", "EUR", DecOfInt(10000, -2))
    \/ \E p \in Procs, commitOk \in BOOLEAN : FetchSucceeds(p, PayloadA, TRUE, commitOk)
    \/ \E p \in Procs : FetchFails(p, TRUE, TRUE)
    \/ \E u \in Users : GetUserTransactions(u, None, None, None, None)

SpecRace == Init /\ [][NextRace]_vars

SpecPairs == Init /\ [][NextPairs]_vars

\* conversions, one at a time, and the history of each user, at one instant
NextConv ==
    \/ \E u \in Users, ft \in ConvertPairs, a \in AmountInputs :
          ConvertCurrency(1, u, ft[1], ft[2], a)
    \/ \E payload \in Payloads, commitOk \in BOOLEAN :
          FetchSucceeds(1, payload, TRUE, commitOk)
    \/ \E readOk \in BOOLEAN, commitOk \in BOOLEAN : FetchFails(1, readOk, commitOk)
    \/ \E u \in Users : GetUserTransactions(u, None, None, None, None)

SpecConv == Init /\ [][NextConv]_vars

\* a row of table transactions as convert_currency writes it for 100.00 USD
\* to EUR at the rates of PayloadA
StoredTransaction(id, user_id, timestamp) ==
    LET amount == DecOfInt(10000, -2)
        exchange_rate == PairRate(DecimalRates(PayloadA), "USD", "EUR").rate
    IN  TransactionRow(id, ConvertCall(user_id, "USD", "EUR", amount),
                       DecMul(amount, exchange_rate), exchange_rate, timestamp)

\* table transactions after at most MaxTx conversions of the users, written
\* at any instants (the rows carry the clock of their writer)
Stores ==
    UNION {{[i \in 1..n |-> StoredTransaction(i, u[i], t[i])] :
               u \in [1..n -> Users], t \in [1..n -> Times]} : n \in 0..MaxTx}

InitList ==
    /\ now = 0
    /\ cache = [k \in {} |-> 0]
    /\ exchange_rates = <<>>
    /\ transactions \in Stores
    /\ req = [p \in Procs |-> None]
    /\ fetches = 0
    /\ last = NoCall

\* the history of transactions filtered by user and dates
NextList ==
    \E u \in UserInputs, fd \in OptTimes, td \in OptTimes :
        GetUserTransactions(u, None, None, fd, td)

SpecList == InitList /\ [][NextList]_vars

\* the limit and offset arguments of get_user_transactions
LimitInputs == {None, Some(0), Some(1), Some(2)}

OffsetInputs == {None, Some(0), Some(1), Some(2)}

\* pages of the history of a user
NextPage ==
    \E u \in Users, limit \in LimitInputs, offset \in OffsetInputs :
        GetUserTransactions(u, limit, offset, None, None)

SpecPage == InitList /\ [][NextPage]_vars

\* positive amounts of two decimals
InverseAmounts == {DecOfInt(10000, -2), DecOfInt(7, -2)}

\* the pairs conversions are asked for: to the base, and across
InversePairs == {<<"USD", "EUR">>, <<"JPY", "BRL">>}

\* lookups of every supported pair and conversions, at one instant, against
\* the snapshots of two days
NextInverse ==
    \/ \E f \in SUPPORTED_CURRENCIES, t \in SUPPORTED_CURRENCIES :
          GetExchangeRate(1, f, t)
    \/ \E ft \in InversePairs, a \in InverseAmounts :
          ConvertCurrency(1, "user_A", ft[1], ft[2], a)
    \/ \E payload \in {PayloadA, PayloadB} : FetchSucceeds(1, payload, TRUE, TRUE)
    \/ FetchFails(1, TRUE, TRUE)

\* the service starts on an empty backup store
InitInverse == Init /\ exchange_rates = <<>>

SpecInverse == InitInverse /\ [][NextInverse]_vars

\* the base parameter of GET /rates: absent, the base currency, another
\* supported currency, an unsupported code
BaseInputs == {None, Some("EUR"), Some("USD"), Some("INVALID")}

\* the amounts of POST /convert bodies: 100.00, -100.00, 0.004 and
\* 123456789.1
HttpAmounts ==
    {DecOfInt(10000, -2), DecOfInt(-10000, -2), DecOfInt(4, -3),
     DecOfInt(1234567891, -1)}

\* the from_date and to_date texts of GET /transactions: absent, not a
\* date, 00:00:00, 00:30:00Z and 00:30:00+00:30
DateTexts ==
    {None, Some(DateText("invalid", 0, 0)), Some(DateText("naive", 0, 0)),
     Some(DateText("Z", TickStep, 0)), Some(DateText("offset", TickStep, TickStep))}

\* the three endpoints, one request at a time, at one instant
NextHttp ==
    \/ \E ft \in {<<"USD", "EUR">>, <<"INVALID", "EUR">>}, a \in HttpAmounts :
          PostConvert(1, "user_A", ft[1], ft[2], a)
    \/ \E u \in {"user_A", "unknown_user"}, limit \in {None, Some(0), Some(1)},
          offset \in {None, Some(-1)}, fd \in DateTexts,
          td \in {None, Some(DateText("invalid", 0, 0))} :
          GetTransactions(u, limit, offset, fd, td)
    \/ \E base \in BaseInputs : GetRates(1, base)
    \/ \E payload \in {PayloadA, PayloadOdd}, commitOk \in BOOLEAN :
          FetchSucceeds(1, payload, TRUE, commitOk)
    \/ \E readOk \in BOOLEAN : FetchFails(1, readOk, TRUE)

SpecHttp == Init /\ [][NextHttp]_vars

(***************************************************************************)
(* Properties                                                              *)
(***************************************************************************)
\* slot p issues the provider request in this step
Started(p) == req[p] = None /\ req'[p] # None

\* the call of slot p returns or raises in this step, after its request
Returned(p) == req[p] # None /\ req'[p] = None

\* a call runs from its start to its end in this step, without a request
RanThrough == req' = req /\ last' # last

\* this step leaves the cache, both tables, the count of provider requests
\* and the pending requests as they are
NoSideEffect ==
    /\ cache' = cache
    /\ exchange_rates' = exchange_rates
    /\ transactions' = transactions
    /\ fetches' = fetches
    /\ req' = req

\* the cache holds an entry for the base currency
Cached == EXCHANGE_RATE_BASE_CURRENCY \in DOMAIN cache

CachedRates == cache[EXCHANGE_RATE_BASE_CURRENCY].rates

\* the cache holds an entry for the base currency with now < expires_at
WithinTTL ==
    Cached /\ now < cache[EXCHANGE_RATE_BASE_CURRENCY].expires_at

\* C1: a snapshot acquisition made while the cache holds an entry for the
\* base currency with now < expires_at issues no provider request, leaves
\* cache and backup store as they are and returns the cached rates; a lookup
\* of the pair the call before it looked up from this entry gets the same
\* rate
C1_CacheHit ==
    [][WithinTTL =>
         /\ \A p \in Procs : ~Started(p)
         /\ fetches' = fetches
         /\ (/\ RanThrough
             /\ last'.op \in {"get_exchange_rate", "get_exchange_rates"}
             /\ last'.status # "InvalidCurrencyException")
               => /\ last'.fetch = "none"
                  /\ last'.rates = Some(CachedRates)
                  /\ cache' = cache
                  /\ exchange_rates' = exchange_rates
                  /\ (/\ last.op = "get_exchange_rate"
                      /\ last'.op = "get_exchange_rate"
                      /\ last.status = "ok"
                      /\ last.rates = Some(CachedRates)
                      /\ last.from_currency = last'.from_currency
                      /\ last.to_currency = last'.to_currency)
                        => last'.status = "ok" /\ last'.rate = last.rate]_vars

\* GET /rates answered from the cache, half a TTL after the one provider
\* request that filled it
C1_Witness ==
    /\ last.op = "get_exchange_rates"
    /\ last.status = "ok"
    /\ last.fetch = "none"
    /\ last.timestamp = Some(TickStep)
    /\ fetches = 1
    /\ WithinTTL
    /\ cache[EXCHANGE_RATE_BASE_CURRENCY].expires_at = EXCHANGE_RATE_CACHE_TTL
    /\ last.rates = Some(CachedRates)

\* C2: when the provider request of a call fails and the cache holds an
\* entry for the base currency, expired or not, the acquisition returns the
\* rates of that entry, whatever the backup store holds, and does not fail
\* with ExternalAPIException
C2_FailedFetchUsesCache ==
    [][\A p \in Procs :
         (Returned(p) /\ last'.fetch = "failed" /\ Cached)
            => /\ last'.rates = Some(CachedRates)
               /\ last'.status # "ExternalAPIException"
               /\ last'.db = "none"
               /\ cache' = cache
               /\ exchange_rates' = exchange_rates]_vars

\* a failed request answered from an expired cache entry while the newest
\* row of the backup store holds other rates
C2_Witness ==
    /\ last.fetch = "failed"
    /\ Cached
    /\ now >= cache[EXCHANGE_RATE_BASE_CURRENCY].expires_at
    /\ last.rates = Some(CachedRates)
    /\ exchange_rates # <<>>
    /\ exchange_rates[Len(exchange_rates)].rates # StrRates(CachedRates)
    /\ DOMAIN exchange_rates[Len(exchange_rates)].rates # {}

\* the rows of the backup store for the base currency
BaseRows ==
    {i \in 1..Len(exchange_rates) :
        exchange_rates[i].base_currency = EXCHANGE_RATE_BASE_CURRENCY}

\* those of them with the greatest last_updated
NewestRows ==
    {i \in BaseRows :
        \A j \in BaseRows :
            exchange_rates[i].last_updated >= exchange_rates[j].last_updated}

\* the rates of row i, as decimals
RowRates(i) ==
    [c \in DOMAIN exchange_rates[i].rates |-> StrToDec(exchange_rates[i].rates[c])]

\* C3 as stated: when the provider request fails and the cache has no entry,
\* the acquisition returns the rates of the backup row with the greatest
\* last_updated for the base currency, and fails with ExternalAPIException
\* when the backup store has no such row
C3_AsStated ==
    [][\A p \in Procs :
         (Returned(p) /\ last'.fetch = "failed" /\ ~Cached)
            => IF NewestRows = {}
               THEN last'.status = "ExternalAPIException"
               ELSE /\ last'.status # "ExternalAPIException"
                    /\ \E i \in NewestRows : last'.rates = Some(RowRates(i))]_vars

\* C3: when the provider request fails and the cache has no entry, the
\* acquisition returns the rates of the backup row with the greatest
\* last_updated for the base currency if the query of the store succeeds and
\* the mapping of that row is not empty; it fails with ExternalAPIException
\* when the store has no such row, when the query raises and when the
\* mapping of the row is empty
C3_BackupFallback ==
    [][\A p \in Procs :
         (Returned(p) /\ last'.fetch = "failed" /\ ~Cached)
            => /\ last'.db \in {"ok", "error"}
               /\ cache' = cache
               /\ exchange_rates' = exchange_rates
               /\ IF /\ last'.db = "ok"
                     /\ \E i \in NewestRows : DOMAIN exchange_rates[i].rates # {}
                  THEN /\ last'.status # "ExternalAPIException"
                       /\ \E i \in NewestRows : last'.rates = Some(RowRates(i))
                  ELSE /\ last'.status = "ExternalAPIException"
                       /\ last'.rates = None]_vars

\* a failed request with an empty cache answered from the newer of two
\* backup rows that hold different rates
C3_Witness ==
    /\ last.fetch = "failed"
    /\ last.db = "ok"
    /\ ~Cached
    /\ Len(exchange_rates) = 2
    /\ exchange_rates[1].last_updated < exchange_rates[2].last_updated
    /\ exchange_rates[1].rates # exchange_rates[2].rates
    /\ last.rates = Some(RowRates(2))
    /\ last.status = "ok"

\* C4 as stated: get_exchange_rate(c, c) for a supported currency c returns
\* exactly 1 with no snapshot acquisition: it issues no provider request,
\* reads no rates, and does not fail, whatever cache, backup store and
\* provider are like
C4_AsStated ==
    (/\ last.op = "get_exchange_rate"
     /\ last.from_currency = last.to_currency
     /\ last.from_currency \in SUPPORTED_CURRENCIES)
        => /\ last.status = "ok"
           /\ last.rate # None
           /\ DecEq(last.rate[1], DecOne)
           /\ last.fetch = "none"
           /\ last.rates = None

\* the rate C5 gives the pair out of snapshot s
DerivedRate(s, from_currency, to_currency) ==
    IF from_currency = EXCHANGE_RATE_BASE_CURRENCY THEN s[to_currency]
    ELSE IF to_currency = EXCHANGE_RATE_BASE_CURRENCY
         THEN DecDiv(DecOne, s[from_currency])
    ELSE DecDiv(s[to_currency], s[from_currency])

\* the snapshot s has what the derivation reads: the rate of to_currency
\* unless it is the base, a rate other than zero of from_currency unless it
\* is the base
Derivable(s, from_currency, to_currency) ==
    /\ to_currency # EXCHANGE_RATE_BASE_CURRENCY
          \/ from_currency = EXCHANGE_RATE_BASE_CURRENCY
          => to_currency \in DOMAIN s
    /\ from_currency # EXCHANGE_RATE_BASE_CURRENCY
          => from_currency \in DOMAIN s /\ ~DecIsZero(s[from_currency])

\* C5: out of the acquired snapshot s, get_exchange_rate(from, to) returns
\* s[to] when from is the base, 1 / s[from] when to is the base and
\* s[to] / s[from] otherwise, for every pair of supported currencies
C5_PairwiseRate ==
    (/\ last.op = "get_exchange_rate"
     /\ last.rates # None
     /\ Derivable(last.rates[1], last.from_currency, last.to_currency))
        => /\ last.status = "ok"
           /\ last.rate = Some(DerivedRate(last.rates[1], last.from_currency,
                                           last.to_currency))

\* USD to EUR out of the snapshot with USD at 1.18: 1 / 1.18 at ten digits
C5_Witness ==
    /\ last.op = "get_exchange_rate"
    /\ last.from_currency = "USD"
    /\ last.to_currency = "EUR"
    /\ last.rates = Some(DecimalRates(PayloadA))
    /\ last.status = "ok"
    /\ last.rate = Some([s |-> 0, d |-> <<8, 4, 7, 4, 5, 7, 6, 2, 7, 1>>, e |-> -10])

\* amount <= 0
NonPositive(amount) == amount.s = 1 \/ \A k \in 1..Len(amount.d) : amount.d[k] = 0

\* C6: convert_currency with amount <= 0 fails with InvalidAmountException
\* whatever the currencies are, and has no side effect: no row is written,
\* no provider request is issued, cache and backup store stay as they are
C6_InvalidAmount ==
    [][/\ \A p \in Procs :
            Started(p) /\ req'[p][1].op = "convert_currency"
               => ~NonPositive(req'[p][1].amount[1])
       /\ (/\ last' # last
           /\ last'.op = "convert_currency"
           /\ NonPositive(last'.amount[1]))
             => last'.status = "InvalidAmountException" /\ NoSideEffect]_vars

\* a conversion of -5.00 from an unsupported currency, refused for its
\* amount
C6_Witness ==
    /\ last.op = "convert_currency"
    /\ last.amount = Some(DecOfInt(-500, -2))
    /\ last.from_currency \notin SUPPORTED_CURRENCIES
    /\ last.status = "InvalidAmountException"
    /\ last.fetch = "none"

\* one of the two codes is outside the supported set
Unsupported(call) ==
    \/ call.from_currency \notin SUPPORTED_CURRENCIES
    \/ call.to_currency \notin SUPPORTED_CURRENCIES

\* C7: get_exchange_rate with from or to outside the supported set fails
\* with InvalidCurrencyException before any snapshot acquisition: no provider
\* request is issued and cache, backup store and transactions stay as they
\* are
C7_InvalidCurrency ==
    [][/\ \A p \in Procs :
            Started(p) /\ req'[p][1].op = "get_exchange_rate"
               => ~Unsupported(req'[p][1])
       /\ (/\ last' # last
           /\ last'.op = "get_exchange_rate"
           /\ Unsupported(last'))
             => /\ last'.status = "InvalidCurrencyException"
                /\ last'.rates = None
                /\ NoSideEffect]_vars

\* a lookup with an unsupported target refused while the cache is empty and
\* no provider request was ever issued
C7_Witness ==
    /\ last.op = "get_exchange_rate"
    /\ last.from_currency \in SUPPORTED_CURRENCIES
    /\ last.to_currency \notin SUPPORTED_CURRENCIES
    /\ last.status = "InvalidCurrencyException"
    /\ ~Cached
    /\ fetches = 0

\* a call ends in this step
CallEnded == RanThrough \/ \E p \in Procs : Returned(p)

Wanted(call) ==
    {i \in 1..Len(transactions) :
        /\ transactions[i].user_id = call.user_id
        /\ call.from_date = None \/ call.from_date[1] <= transactions[i].timestamp
        /\ call.to_date = None \/ transactions[i].timestamp <= call.to_date[1]}

\* the ids a query returned
ReturnedIds(call) ==
    {call.transactions[k].transaction_id : k \in 1..Len(call.transactions)}

\* C9: get_user_transactions without limit and offset returns exactly the
\* stored transactions whose user_id is the argument and whose timestamp is
\* >= from_date when given and <= to_date when given, a row whose timestamp
\* equals a bound included, each once, and total is their number
C9_DateFilter ==
    [][(/\ last' # last
        /\ last'.op = "get_user_transactions"
        /\ last'.status = "ok"
        /\ last'.limit = None
        /\ last'.offset = None)
          => /\ ReturnedIds(last') = {transactions[i].id : i \in Wanted(last')}
             /\ Len(last'.transactions) = Cardinality(Wanted(last'))
             /\ last'.count = Cardinality(Wanted(last'))
             /\ last'.total = Cardinality(Wanted(last'))]_vars

\* two rows of one user, one written at from_date and one before it: the
\* query returns the one written at from_date
C9_Witness ==
    /\ last.op = "get_user_transactions"
    /\ last.status = "ok"
    /\ last.from_date = Some(TickStep)
    /\ last.to_date = None
    /\ Len(transactions) = 2
    /\ \A i \in 1..2 : transactions[i].user_id = last.user_id
    /\ transactions[1].timestamp = 0
    /\ transactions[2].timestamp = TickStep
    /\ last.total = 1
    /\ ReturnedIds(last) = {transactions[2].id}

\* C10: get_user_transactions fails with UserNotFoundException exactly when
\* no stored transaction matches user_id and dates, also when the user has
\* transactions outside the dates; a result it returns has total > 0
C10_UserNotFound ==
    [][(last' # last /\ last'.op = "get_user_transactions")
          => /\ last'.status \in {"ok", "UserNotFoundException"}
             /\ last'.status = "UserNotFoundException" <=> Wanted(last') = {}
             /\ last'.status = "ok" => last'.total > 0
             /\ NoSideEffect]_vars

\* a query that raised for a user whose rows all lie before from_date
C10_Witness ==
    /\ last.op = "get_user_transactions"
    /\ last.status = "UserNotFoundException"
    /\ last.from_date # None
    /\ \E i \in 1..Len(transactions) :
          /\ transactions[i].user_id = last.user_id
          /\ transactions[i].timestamp < last.from_date[1]

\* the orders that put the rows (positions in table transactions) by
\* timestamp, the most recent first
SortedLists(rows) ==
    {s \in [1..Cardinality(rows) -> rows] :
        /\ \A i \in rows : \E k \in 1..Cardinality(rows) : s[k] = i
        /\ \A k \in 1..(Cardinality(rows) - 1) :
              transactions[s[k]].timestamp >= transactions[s[k + 1]].timestamp}

\* s[offset : offset + limit], an absent offset being 0 and an absent limit
\* no cap
Slice(s, offset, limit) ==
    LET o    == IF offset = None THEN 0 ELSE offset[1]
        stop == IF limit = None \/ o + limit[1] > Len(s) THEN Len(s)
                ELSE o + limit[1]
    IN  [k \in 1..(IF stop > o THEN stop - o ELSE 0) |-> s[o + k]]

\* the ids of the rows a query returned, in the order returned
ReturnedIdList(call) ==
    [k \in 1..Len(call.transactions) |-> call.transactions[k].transaction_id]

\* C11: the rows get_user_transactions returns are in non-increasing
\* timestamp order and, for every limit > 0 and offset >= 0, each optional,
\* they are the matching rows sorted by timestamp descending, sliced at
\* [offset : offset + limit]
C11_SortedPage ==
    [][(/\ last' # last
        /\ last'.op = "get_user_transactions"
        /\ last'.status = "ok"
        /\ last'.limit = None \/ last'.limit[1] > 0
        /\ last'.offset = None \/ last'.offset[1] >= 0)
          => /\ \A k \in 1..(Len(last'.transactions) - 1) :
                   last'.transactions[k].timestamp
                       >= last'.transactions[k + 1].timestamp
             /\ \E s \in SortedLists(Wanted(last')) :
                   ReturnedIdList(last')
                       = Slice([k \in 1..Len(s) |-> transactions[s[k]].id],
                               last'.offset, last'.limit)]_vars

\* limit 1 and offset 1 over two rows of one user, the second the more
\* recent: the page is the first row
C11_Witness ==
    /\ last.op = "get_user_transactions"
    /\ last.status = "ok"
    /\ last.limit = Some(1)
    /\ last.offset = Some(1)
    /\ Len(transactions) = 2
    /\ \A i \in 1..2 : transactions[i].user_id = last.user_id
    /\ transactions[1].timestamp < transactions[2].timestamp
    /\ ReturnedIdList(last) = <<transactions[1].id>>

\* C12: in every result get_user_transactions returns, total is the number
\* of stored rows that match user_id and dates, whatever limit and offset
\* are, count is the length of the returned list, and count <= total (the
\* table is the one the query read: no step here writes to it)
C12_CountAndTotal ==
    (last.op = "get_user_transactions" /\ last.status = "ok")
        => /\ last.total = Cardinality(Wanted(last))
           /\ last.count = Len(last.transactions)
           /\ last.count <= last.total

\* a page of one row out of two that match
C12_Witness ==
    /\ last.op = "get_user_transactions"
    /\ last.status = "ok"
    /\ last.limit = Some(1)
    /\ Cardinality(Wanted(last)) = 2
    /\ last.total = 2
    /\ last.count = 1
    /\ Len(last.transactions) = 1

\* the cache after a fetch at the present instant that returned rates
FreshEntry(rates) ==
    [c \in {EXCHANGE_RATE_BASE_CURRENCY} |->
        [rates |-> rates, expires_at |-> now + EXCHANGE_RATE_CACHE_TTL]]

\* the backup store with one more row, of rates written at the present
\* instant
OneMoreRow(rates) ==
    exchange_rates \o
        <<[base_currency |-> EXCHANGE_RATE_BASE_CURRENCY,
           rates |-> [c \in DOMAIN rates |-> DecToStr(rates[c])],
           last_updated |-> now]>>

\* the call of some slot returns in this step after a provider request that
\* succeeded
FetchedNow == \E p \in Procs : Returned(p) /\ last'.fetch = "ok"

\* C13 as stated: every successful provider fetch replaces the cache entry
\* of the base currency by the fetched rates with expires_at = now + TTL,
\* appends exactly one row to the backup store and returns the fetched
\* rates; no other step appends a row
C13_AsStated ==
    [][/\ FetchedNow
            => /\ last'.rates # None
               /\ cache' = FreshEntry(last'.rates[1])
               /\ exchange_rates' = OneMoreRow(last'.rates[1])
       /\ exchange_rates' # exchange_rates => FetchedNow]_vars

\* C13: every successful provider fetch replaces the cache entry of the base
\* currency by the fetched rates with expires_at = now + TTL and returns the
\* fetched rates; it appends exactly one row to the backup store when the
\* commit of the row succeeds and none when the commit raises; no other step
\* changes the cache or the backup store
C13_FetchCachesAndSaves ==
    [][/\ FetchedNow
            => /\ last'.rates # None
               /\ last'.rates[1] \in {DecimalRates(payload) : payload \in Payloads}
               /\ cache' = FreshEntry(last'.rates[1])
               /\ last'.save \in {"ok", "error"}
               /\ last'.save = "ok"
                     => exchange_rates' = OneMoreRow(last'.rates[1])
               /\ last'.save = "error" => exchange_rates' = exchange_rates
       /\ (exchange_rates' # exchange_rates \/ cache' # cache) => FetchedNow]_vars

\* GET /rates after a fetch at half a TTL that was cached and saved
C13_Witness ==
    /\ last.op = "get_exchange_rates"
    /\ last.fetch = "ok"
    /\ last.save = "ok"
    /\ now = TickStep
    /\ Cached
    /\ last.rates = Some(CachedRates)
    /\ cache[EXCHANGE_RATE_BASE_CURRENCY].expires_at
          = TickStep + EXCHANGE_RATE_CACHE_TTL
    /\ exchange_rates # <<>>
    /\ exchange_rates[Len(exchange_rates)].last_updated = TickStep
    /\ exchange_rates[Len(exchange_rates)].rates = StrRates(CachedRates)

(***************************************************************************)
(* Exact arithmetic on non-negative decimals, to compare within a           *)
(* tolerance                                                               *)
(***************************************************************************)
RECURSIVE AddDigits(_, _, _)
\* the digits of a + b + carry
AddDigits(a, b, carry) ==
    IF a = <<>> /\ b = <<>> THEN (IF carry = 0 THEN <<>> ELSE <<carry>>)
    ELSE LET x  == IF a = <<>> THEN 0 ELSE a[Len(a)]
             y  == IF b = <<>> THEN 0 ELSE b[Len(b)]
             ra == IF a = <<>> THEN <<>> ELSE SubSeq(a, 1, Len(a) - 1)
             rb == IF b = <<>> THEN <<>> ELSE SubSeq(b, 1, Len(b) - 1)
         IN  Append(AddDigits(ra, rb, (x + y + carry) \div 10),
                    (x + y + carry) % 10)

RECURSIVE TimesDigits(_, _)
\* the digits of a * b
TimesDigits(a, b) ==
    IF b = <<>> THEN <<>>
    ELSE AddDigits(Append(TimesDigits(a, SubSeq(b, 1, Len(b) - 1)), 0),
                   MulDigits(a, b[Len(b)], 0), 0)

RECURSIVE LexLeq(_, _)
\* a <= b for digits of one length
LexLeq(a, b) ==
    IF a = <<>> THEN TRUE
    ELSE IF a[1] # b[1] THEN a[1] < b[1]
    ELSE LexLeq(Tail(a), Tail(b))

\* a <= b for digits
DigitsLeq(a, b) ==
    LET x == StripLeadingZeros(a)
        y == StripLeadingZeros(b)
    IN  IF Len(x) # Len(y) THEN Len(x) < Len(y) ELSE LexLeq(x, y)

\* the exact product of two decimals
ExactProduct(x, y) == [s |-> (x.s + y.s) % 2, d |-> TimesDigits(x.d, y.d), e |-> x.e + y.e]

\* the digits of |x| in units of 10^e, for e <= x.e
DigitsAt(x, e) == x.d \o Zeros(x.e - e)

\* |x - y| <= t for non-negative decimals
Within(x, y, t) ==
    LET e == Min(Min(x.e, y.e), t.e)
    IN  /\ DigitsLeq(DigitsAt(x, e), AddDigits(DigitsAt(y, e), DigitsAt(t, e), 0))
        /\ DigitsLeq(DigitsAt(y, e), AddDigits(DigitsAt(x, e), DigitsAt(t, e), 0))

\* the relative tolerance is 10^-ToleranceDigits
ToleranceDigits == 6

\* x * 10^-ToleranceDigits
Tolerance(x) == [s |-> x.s, d |-> x.d, e |-> x.e - ToleranceDigits]

\* the rate of the pair of call, taken the other way, out of the snapshot
\* of call
RateBack(call) == PairRate(call.rates[1], call.to_currency, call.from_currency)

\* C14: against one snapshot, the rate of a supported pair times the rate
\* of the pair taken the other way is 1 within the tolerance, and the
\* target amount of a conversion is the amount divided by the rate taken
\* the other way within the tolerance: target * rate(to, from) is amount
\* within amount * tolerance
C14_InverseConsistency ==
    (/\ last.op \in {"get_exchange_rate", "convert_currency"}
     /\ last.status = "ok"
     /\ RateBack(last).status = "ok")
        => /\ Within(ExactProduct(last.rate[1], RateBack(last).rate),
                     DecOne, Tolerance(DecOne))
           /\ last.op = "convert_currency"
                 => Within(ExactProduct(last.target[1], RateBack(last).rate),
                           last.amount[1], Tolerance(last.amount[1]))

\* 0.07 JPY converted to BRL: the two rates are rounded, and their product
\* is not 1
C14_Witness ==
    /\ last.op = "convert_currency"
    /\ last.status = "ok"
    /\ last.from_currency = "JPY"
    /\ last.to_currency = "BRL"
    /\ last.amount = Some(DecOfInt(7, -2))
    /\ RateBack(last).status = "ok"
    /\ ~Within(ExactProduct(last.rate[1], RateBack(last).rate), DecOne,
               DecOfInt(0, 0))

\* the rows by timestamp, the most recent first, rows of one timestamp in
\* the order they were inserted
StableSorted(rows) ==
    CHOOSE s \in SortedLists(rows) :
        \A k \in 1..(Cardinality(rows) - 1) :
            transactions[s[k]].timestamp = transactions[s[k + 1]].timestamp
                => s[k] < s[k + 1]

\* C15 as stated: rows with equal timestamps are returned in insertion
\* order, so that every page of a query is the slice [offset : offset+limit]
\* of the one list the store contents determine
C15_AsStated ==
    (/\ last.op = "get_user_transactions"
     /\ last.status = "ok"
     /\ last.limit = None \/ last.limit[1] > 0)
        => LET s == StableSorted(Wanted(last))
           IN  ReturnedIdList(last)
                   = Slice([k \in 1..Len(s) |-> transactions[s[k]].id],
                           last.offset, last.limit)

\* a request whose from_date or to_date text is not an ISO date
MalformedDate(call) ==
    /\ call.dates # None
    /\ \/ call.dates[1].from_date = Some(DateText("invalid", 0, 0))
       \/ call.dates[1].to_date = Some(DateText("invalid", 0, 0))

\* the body has the three fields error, status_code and detail at top level
ErrorShape(response) == DOMAIN response.content = {"error", "status_code", "detail"}

\* C16 as the specification states it: every response to a request that
\* failed has the body {error, status_code, detail}
C16_AsStated ==
    (last.op # "none" /\ last.status # "ok") => ErrorShape(HttpResponse(last))

\* C16: every response to a request that failed has the body {error,
\* status_code, detail}, with the status code of the response in status_code,
\* except the response to a from_date or to_date that is not an ISO date (in
\* a request whose limit and offset are valid), which has status code 400
\* and the body {detail: {error, detail}}; the handler gives the body
\* {error, status_code, detail} to each exception of the application
C16_ErrorShape ==
    LET response == HttpResponse(last)
    IN  /\ \A status \in CurrencyConverterExceptions :
              ErrorShape(ExceptionHandler(status))
        /\ (last.op # "none" /\ last.status # "ok")
              => IF MalformedDate(last) /\ QueryValid(last.limit, last.offset)
                 THEN /\ response.status_code = 400
                      /\ DOMAIN response.content = {"detail"}
                      /\ DOMAIN response.content.detail = {"error", "detail"}
                 ELSE /\ ErrorShape(response)
                      /\ response.content.status_code = response.status_code

\* a request with valid limit and offset and a malformed date was answered
C16_Witness ==
    /\ last.op = "get_user_transactions"
    /\ MalformedDate(last)
    /\ QueryValid(last.limit, last.offset)
    /\ DOMAIN HttpResponse(last).content = {"detail"}

\* the request failed at the provider, the cache is empty and the backup
\* store gave no snapshot
NoFallback(call) ==
    /\ call.fetch = "failed"
    /\ ~Cached
    /\ \/ call.db = "error"
       \/ \A i \in NewestRows : DOMAIN exchange_rates[i].rates = {}

C18_RateFailurePropagates ==
    [][(/\ last' # last
        /\ last'.op = "convert_currency"
        /\ ~NonPositive(last'.amount[1]))
          => /\ Unsupported(last') => last'.status = "InvalidCurrencyException"
             /\ (~Unsupported(last') /\ NoFallback(last'))
                   => last'.status = "ExternalAPIException"
             /\ last'.status \in {"InvalidCurrencyException", "ExternalAPIException"}
                   => /\ transactions' = transactions
                      /\ last'.transaction_id = None
                      /\ last'.rate = None]_vars

\* after a conversion was stored, another failed for want of a snapshot
C18_Witness ==
    /\ last.op = "convert_currency"
    /\ last.status = "ExternalAPIException"
    /\ last.fetch = "failed"
    /\ transactions # <<>>

\* a snapshot whose keys are supported currencies and whose rate for the
\* base currency is 1
WellFormed(rates) ==
    /\ DOMAIN rates \subseteq SUPPORTED_CURRENCIES
    /\ EXCHANGE_RATE_BASE_CURRENCY \in DOMAIN rates
    /\ DecEq(rates[EXCHANGE_RATE_BASE_CURRENCY], DecOne)

\* C19 as the specification states it: the cached snapshot, every backup
\* row the service wrote and every snapshot an acquisition returned have
\* supported currencies as keys and the rate 1 for the base currency,
\* whatever the provider answered
C19_AsStated ==
    /\ Cached => WellFormed(CachedRates)
    /\ \A i \in 1..Len(exchange_rates) :
          exchange_rates[i].last_updated >= 0 => WellFormed(RowRates(i))
    /\ last.rates # None => WellFormed(last.rates[1])

\* what get_user_transactions returns for the stored transaction id
Listed(id) ==
    FormatTransaction(
        transactions[CHOOSE i \in 1..Len(transactions) : transactions[i].id = id])

\* C20 as the specification states it: after a successful convert_currency,
\* the rate and the target amount the history returns for its transaction id
\* equal the rate and the target amount the call returned, and the
\* timestamp the call returned is the timestamp of the stored row
C20_AsStated ==
    (last.op = "convert_currency" /\ last.status = "ok")
       => LET listed == Listed(last.transaction_id[1])
          IN  /\ DecEq(listed.rate, last.rate[1])
              /\ DecEq(listed.to.amount, last.target[1])
              /\ listed.timestamp = last.timestamp[1]

\* the amount has exactly two decimal places
TwoPlaces(x) == x.e = 0 - 2

\* C21 as the specification states it: the source amount a conversion uses
\* has two decimal places, and so have the source and target amounts in the
\* answer to POST /convert and in every row GET /transactions answers with
C21_AsStated ==
    LET content == HttpResponse(last).content
    IN  /\ (last.op = "convert_currency" /\ last.fetch # "none")
              => TwoPlaces(last.amount[1])
        /\ (last.op = "convert_currency" /\ last.status = "ok")
              => TwoPlaces(content.from.amount) /\ TwoPlaces(content.to.amount)
        /\ (last.op = "get_user_transactions" /\ last.status = "ok")
              => \A k \in 1..Len(content.transactions) :
                    /\ TwoPlaces(content.transactions[k].from.amount)
                    /\ TwoPlaces(content.transactions[k].to.amount)

\* C22: GET /rates, whatever its base parameter, answers 200 with base the
\* configured base currency and with the rates of the snapshot the rate
\* service acquired: the cache entry when there is one, else the rates of a
\* newest backup row
C22_RatesBasePinned ==
    (last.op = "get_exchange_rates" /\ last.status = "ok")
       => LET response == HttpResponse(last)
          IN  /\ response.status_code = 200
              /\ response.content.base = EXCHANGE_RATE_BASE_CURRENCY
              /\ IF Cached THEN response.content.rates = CachedRates
                 ELSE \E i \in NewestRows : response.content.rates = RowRates(i)

\* GET /rates answered from the backup store, the provider having failed
C22_Witness ==
    /\ last.op = "get_exchange_rates"
    /\ last.status = "ok"
    /\ last.fetch = "failed"
    /\ HttpResponse(last).content.base = EXCHANGE_RATE_BASE_CURRENCY
    /\ HttpResponse(last).content.rates = DecimalRates(PayloadA)

\* a snapshot acquisition: the two operations that reach _get_rates here
Acquires(call) == call.op \in {"get_exchange_rate", "get_exchange_rates"}

\* C23: an acquisition made while the cache has no entry or now >= expires_at
\* issues one provider request, and only such an acquisition issues one; the
\* count of requests changes at no other step, so a call has one request
\* from its start to its end; it ends with a snapshot or with
\* ExternalAPIException, and every call that waits for the provider ends; an
\* acquisition never passes a stale or empty cache without a request, not
\* even right after a failed one
C23_OneFetchAttempt ==
    /\ [][/\ \A p \in Procs :
               Started(p) => /\ ~WithinTTL
                             /\ fetches' = fetches + 1
                             /\ \A q \in Procs \ {p} : req'[q] = req[q]
          /\ \A p \in Procs :
               Returned(p) => /\ fetches' = fetches
                              /\ last'.fetch \in {"ok", "failed"}
                              /\ last'.fetch = "ok" => last'.rates # None
                              /\ \/ last'.rates # None
                                 \/ last'.status = "ExternalAPIException"
          /\ fetches' # fetches => \E p \in Procs : Started(p)
          /\ (RanThrough /\ Acquires(last') /\ ~WithinTTL)
               => last'.status = "InvalidCurrencyException"]_vars
    /\ \A p \in Procs : (req[p] # None) ~> (req[p] = None)

\* an acquisition failed for want of a fallback, and the next one, with the
\* cache still empty, has issued its own request
C23_Witness ==
    /\ last.status = "ExternalAPIException"
    /\ last.fetch = "failed"
    /\ ~Cached
    /\ fetches = 2
    /\ \E p \in Procs : req[p] # None

\* C24: an acquisition whose provider request failed leaves the cache and
\* the backup store as they were, whichever way it ends: an expired entry
\* keeps its rates and its expires_at, rates read from the backup store are
\* not put in the cache, and no backup row is added
C24_FallbackWritesNothing ==
    [][\A p \in Procs :
         (Returned(p) /\ last'.fetch = "failed")
            => /\ cache' = cache
               /\ exchange_rates' = exchange_rates
               /\ Cached => /\ cache'[EXCHANGE_RATE_BASE_CURRENCY].expires_at
                                 = cache[EXCHANGE_RATE_BASE_CURRENCY].expires_at
                            /\ last'.rates = Some(CachedRates)
               /\ ~Cached => EXCHANGE_RATE_BASE_CURRENCY \notin DOMAIN cache'
               /\ Len(exchange_rates') = Len(exchange_rates)]_vars

\* rates were returned from the backup store and the cache is still empty
C24_Witness ==
    /\ last.fetch = "failed"
    /\ last.db = "ok"
    /\ last.status = "ok"
    /\ last.rates # None
    /\ ~Cached
    /\ exchange_rates # <<>>

\* a status code of the 2xx class
SuccessStatus(status_code) == status_code \in 200..299

\* the step is the end of the provider request of slot p with response
Responded(p, response) ==
    /\ Returned(p)
    /\ \E saveOk \in BOOLEAN, readOk \in BOOLEAN :
          ProviderResponds(p, response, saveOk, readOk)

\* the step writes neither cache nor backup store, issues no request, and
\* ends the call as one whose fetch failed
FailedFetchStep(p) ==
    /\ cache' = cache
    /\ exchange_rates' = exchange_rates
    /\ fetches' = fetches
    /\ req'[p] = None
    /\ last'.fetch = "failed"

C26_CacheReplacedWhole ==
    /\ [](/\ DOMAIN cache \subseteq {EXCHANGE_RATE_BASE_CURRENCY}
          /\ Cached => /\ \E payload \in Payloads : CachedRates = DecimalRates(payload)
                       /\ cache[EXCHANGE_RATE_BASE_CURRENCY].expires_at
                             <= now + EXCHANGE_RATE_CACHE_TTL)
    /\ [][/\ cache' # cache
               => \E p \in Procs :
                     /\ Returned(p)
                     /\ last'.fetch = "ok"
                     /\ cache' = FreshEntry(last'.rates[1])
          /\ (\E p \in Procs : Returned(p) /\ last'.fetch = "ok")
               => cache' = FreshEntry(last'.rates[1])]_vars

\* two acquisitions found the cache empty at the same instant; the first to
\* end cached and saved the rates of PayloadA, the second replaced them
C26_Witness ==
    /\ now = 0
    /\ fetches = 2
    /\ \A p \in Procs : req[p] = None
    /\ Cached
    /\ CachedRates = DecimalRates(PayloadOdd)
    /\ \E i \in 1..Len(exchange_rates) :
          /\ exchange_rates[i].last_updated = 0
          /\ exchange_rates[i].rates = StrRates(DecimalRates(PayloadA))

\* C27: a POST /convert whose commit of the Transaction row fails returns no
\* conversion result (no transaction id, no target amount): it is answered
\* 500 with the body {error, status_code, detail} of the general handler,
\* whose texts are fixed and name nothing of the error, and table
\* transactions is after the call as it was before, so no later query sees a
\* row of that call
C27_PersistenceFailure ==
    [][(/\ last' # last
        /\ last'.op = "convert_currency"
        /\ last'.status = "SQLAlchemyError")
          => LET response == HttpResponse(last')
             IN  /\ transactions' = transactions
                 /\ last'.transaction_id = None
                 /\ last'.target = None
                 /\ response.status_code = 500
                 /\ response.content =
                       [error |-> "Internal server error", status_code |-> 500,
                        detail |-> "An unexpected error occurred"]]_vars

\* a conversion failed at the commit after another had been stored
C27_Witness ==
    /\ last.op = "convert_currency"
    /\ last.status = "SQLAlchemyError"
    /\ last.rates # None
    /\ Len(transactions) = 1
    /\ HttpResponse(last).status_code = 500

\* C28: get_user_transactions, whether it returns or raises
\* UserNotFoundException, leaves table transactions, the cache and the
\* backup store as they are; table transactions changes only when a
\* convert_currency call ends in success, and then by one row added at its
\* end, every row before it staying as it was
C28_QueryReadsOnly ==
    [][/\ (last' # last /\ last'.op = "get_user_transactions")
             => /\ last'.status \in {"ok", "UserNotFoundException"}
                /\ transactions' = transactions
                /\ cache' = cache
                /\ exchange_rates' = exchange_rates
                /\ fetches' = fetches
       /\ transactions' # transactions
             => /\ last'.op = "convert_currency"
                /\ last'.status = "ok"
                /\ Len(transactions') = Len(transactions) + 1
                /\ SubSeq(transactions', 1, Len(transactions)) = transactions]_vars

\* a query for a user without rows raised while the table holds two rows,
\* next to a cache entry and backup rows
C28_Witness ==
    /\ last.op = "get_user_transactions"
    /\ last.status = "UserNotFoundException"
    /\ Len(transactions) = 2
    /\ Cached
    /\ exchange_rates # <<>>

\* C29: while no write of the backup store has failed, in every state of
\* every interleaving of concurrent acquisitions a cache that holds an entry
\* goes with a backup row of the greatest last_updated for the base currency,
\* the row written last, that holds the rates of the entry
C29_CacheMatchesBackup ==
    Cached
       => /\ exchange_rates # <<>>
          /\ Len(exchange_rates) \in NewestRows
          /\ RowRates(Len(exchange_rates)) = CachedRates

\* after two fetches with different answers, the second at a later instant
\* while another acquisition waits for the provider
C29_Witness ==
    /\ Cached
    /\ CachedRates = DecimalRates(PayloadOdd)
    /\ now > 0
    /\ \E i \in 1..Len(exchange_rates) :
          /\ exchange_rates[i].last_updated = 0
          /\ exchange_rates[i].rates = StrRates(DecimalRates(PayloadA))
    /\ exchange_rates[Len(exchange_rates)].last_updated > 0

\* C30: a successful fetch leaves an entry in the cache; an entry is never
\* removed and its expires_at never decreases; an acquisition that ends
\* while the cache holds an entry returns a snapshot and does not raise
\* ExternalAPIException, whether it read the entry, fetched, or fell back
\* after a failed request, and whatever the backup store holds or does
C30_NoFailureOnceCached ==
    [][/\ FetchedNow => EXCHANGE_RATE_BASE_CURRENCY \in DOMAIN cache'
       /\ Cached
            => /\ EXCHANGE_RATE_BASE_CURRENCY \in DOMAIN cache'
               /\ cache'[EXCHANGE_RATE_BASE_CURRENCY].expires_at
                     >= cache[EXCHANGE_RATE_BASE_CURRENCY].expires_at
               /\ (/\ CallEnded
                   /\ last' # last
                   /\ Acquires(last')
                   /\ last'.status # "InvalidCurrencyException")
                     => /\ last'.rates # None
                        /\ last'.status # "ExternalAPIException"]_vars

\* with an expired entry in the cache, a request failed, the backup store
\* was not asked, and the rates of the entry were returned
C30_Witness ==
    /\ Cached
    /\ now >= cache[EXCHANGE_RATE_BASE_CURRENCY].expires_at
    /\ last.op = "get_exchange_rates"
    /\ last.fetch = "failed"
    /\ last.db = "none"
    /\ last.status = "ok"
    /\ last.rates = Some(CachedRates)

\* the cache entry is the one the call recorded in last installed
InstalledByLast ==
    /\ Cached
    /\ last.op = "get_exchange_rates"
    /\ last.fetch = "ok"
    /\ last.served # None
    /\ cache = [c \in {EXCHANGE_RATE_BASE_CURRENCY} |->
                  [rates |-> last.rates[1],
                   expires_at |-> last.timestamp[1] + EXCHANGE_RATE_CACHE_TTL]]

\* C31 as stated: a fetch that replaces the cache entry installs a snapshot
\* the provider served no earlier than the snapshot it replaces
C31_AsStated ==
    [][(FetchedNow /\ InstalledByLast /\ last'.served # None)
          => last'.served[1].at >= last.served[1].at]_vars

\* C31: a fetch that ends replaces the cache entry by the snapshot the
\* provider served to it, with expires_at = now + TTL, whenever the provider
\* served it and whatever the entry holds: the entry is the snapshot of the
\* response that was handled last, and nothing else changes the cache
C31_LastResponseWins ==
    [][/\ (FetchedNow /\ last'.served # None)
            => /\ last'.rates = Some(DecimalRates(last'.served[1].payload))
               /\ last'.served[1].at <= now
               /\ cache' = FreshEntry(DecimalRates(last'.served[1].payload))
       /\ cache' # cache => FetchedNow]_vars

\* the quote served at first was handled after the later one and replaced
\* it in the cache: the backup row before the last holds the later quote
C31_Witness ==
    /\ Cached
    /\ CachedRates = DecimalRates(ProviderQuote(0))
    /\ last.served # None
    /\ last.served[1].at = 0
    /\ now > 0
    /\ Len(exchange_rates) >= 2
    /\ exchange_rates[Len(exchange_rates)].rates = StrRates(DecimalRates(ProviderQuote(0)))
    /\ exchange_rates[Len(exchange_rates) - 1].rates = StrRates(DecimalRates(ProviderQuote(now)))
    /\ exchange_rates[Len(exchange_rates) - 1].last_updated > 0

\* C32: under every interleaving of concurrent conversions, of two rows of
\* table transactions the one with the greater id has a timestamp greater
\* than or equal to that of the other; a history returned without limit and
\* offset lists each row before every row of smaller id, save rows of equal
\* timestamp
C32_IdsFollowTimestamps ==
    /\ \A i \in 1..Len(transactions), j \in 1..Len(transactions) :
          transactions[i].id > transactions[j].id
             => transactions[i].timestamp >= transactions[j].timestamp
    /\ (last.op = "get_user_transactions" /\ last.status = "ok")
          => \A k \in 1..Len(last.transactions), m \in 1..Len(last.transactions) :
                k < m => \/ last.transactions[k].transaction_id
                              > last.transactions[m].transaction_id
                         \/ last.transactions[k].timestamp
                              = last.transactions[m].timestamp

\* two conversions of a user ended at different instants, and the history
\* of the user lists the later row, of greater id, first
C32_Witness ==
    /\ last.op = "get_user_transactions"
    /\ last.status = "ok"
    /\ Len(last.transactions) = 2
    /\ last.transactions[1].transaction_id > last.transactions[2].transaction_id
    /\ last.transactions[1].timestamp > last.transactions[2].timestamp

\* C33: get_user_transactions raises UserNotFoundException exactly when no
\* stored transaction matches, whatever limit and offset are; with at least
\* one match and offset >= their number it returns an empty list, count = 0
\* and total = the number of matches
C33_OffsetPastTheEnd ==
    last.op = "get_user_transactions"
       => LET total == Cardinality(Wanted(last))
          IN  /\ last.status = "UserNotFoundException" <=> total = 0
              /\ last.status = "ok" <=> total > 0
              /\ (total > 0 /\ last.offset # None /\ last.offset[1] >= total)
                    => /\ last.transactions = <<>>
                       /\ last.count = 0
                       /\ last.total = total

\* a query with limit 1 and offset 2 for a user with two rows
C33_Witness ==
    /\ last.op = "get_user_transactions"
    /\ last.limit = Some(1)
    /\ last.offset = Some(2)
    /\ Cardinality(Wanted(last)) = 2
    /\ last.status = "ok"
    /\ last.count = 0
    /\ last.total = 2

\* C34 as stated: get_exchange_rate for two supported currencies returns a
\* rate > 0 or raises ExternalAPIException, whatever rates mapping the
\* provider, the cache or the backup store supplied
C34_AsStated ==
    (/\ last.op = "get_exchange_rate"
     /\ ~Unsupported(last))
       => \/ /\ last.status = "ok"
             /\ last.rate # None
             /\ last.rate[1].s = 0
             /\ ~DecIsZero(last.rate[1])
          \/ last.status = "ExternalAPIException"

\* C35: every row of table transactions written through POST /convert has a
\* source amount > 0 with two decimal places and supported source and target
\* currencies; a request whose amount passes the schema and is 0.00 once
\* normalized is refused with InvalidAmountException, answered 400, before
\* any snapshot acquisition, and writes nothing
C35_StoredAmountsPositive ==
    /\ [](\A i \in 1..Len(transactions) :
             /\ ~DecLeqZero(transactions[i].source_amount)
             /\ TwoPlaces(transactions[i].source_amount)
             /\ transactions[i].source_currency \in SUPPORTED_CURRENCIES
             /\ transactions[i].target_currency \in SUPPORTED_CURRENCIES)
    /\ [][(/\ last' # last
           /\ last'.op = "convert_currency"
           /\ last'.status # "RequestValidationError"
           /\ DecIsZero(last'.amount[1]))
             => /\ last'.status = "InvalidAmountException"
                /\ HttpResponse(last').status_code = 400
                /\ last'.fetch = "none"
                /\ NoSideEffect]_vars

\* after a conversion was stored, a request for 0.004, 0.00 once
\* normalized, was refused
C35_Witness ==
    /\ last.op = "convert_currency"
    /\ last.amount = Some(Quantize(DecOfInt(4, -3)).value)
    /\ DecIsZero(last.amount[1])
    /\ last.status = "InvalidAmountException"
    /\ transactions # <<>>

====
